---- MODULE Spec2Model ----
(***************************************************************************)
(* Sunainscent backend (FastAPI): authentication, token service, principal *)
(* resolution and the access gates of the product / order / contact /      *)
(* admin routers, as a state machine over the document store.              *)
(*                                                                         *)
(* A step of the machine is one whole HTTP request (dependency resolution  *)
(* followed by the handler body), a tick of the wall clock, or the         *)
(* start-up hook.  resp holds the response of the request being served,    *)
(* from the step that serves it until it is sent (NoResp otherwise).       *)
(***************************************************************************)
EXTENDS Integers, Sequences, FiniteSets, TLC

VARIABLES
    env,              \* process environment read with os.getenv
    lifespan,         \* "startup" before connect_to_mongo ran, then "serving"
    mongodb,          \* config/database.py: the MongoDB singleton (client, database)
    now,              \* datetime.utcnow(), in minutes
    users,            \* db.users: sequence of documents, _id = position
    products,         \* db.products: set of documents
    orders,           \* db.orders: set of documents
    contact_messages, \* db.contact_messages: set of documents
    nextId,           \* the next ObjectId the driver generates
    tokens,           \* issuances so far: the bearer token and what it was issued for
    resp,             \* response of the request being served, NoResp when idle
    inflight          \* register requests suspended at an await, oldest first

vars == <<env, lifespan, mongodb, now, users, products, orders,
          contact_messages, nextId, tokens, resp, inflight>>

store == <<users, products, orders, contact_messages, nextId>>

-----------------------------------------------------------------------------
(* Bounds of the model *)

MaxNow == 2880        \* the clock stops here
TickStep == 720       \* minutes between two observations of the clock
MaxUsers == 2         \* register requests that insert
MaxTokens == 1        \* tokens issued and kept by clients
MaxInflight == 2      \* register requests suspended at the same time
MaxDocs == 1          \* documents inserted into products, orders and contact_messages

(* Program constants *)

jwt_expiration_time == 1440
HTTP_400 == 400
HTTP_401 == 401
HTTP_403 == 403
HTTP_404 == 404
HTTP_503 == 503
HTTP_500 == 500
bcrypt_truncate_size == 72
HTTP_200 == 200

NoneVal == "None"
jwt_secret_key == "JWT_SECRET_KEY"
AttackerKey == "not-the-secret"

(* Inputs *)

Emails == {"a@x.com", "admin@x.com"}
\* a password of n bytes, each of them c
Pw(c, n) == [k \in 1..n |-> c]
Passwords == {Pw(1, 8), Pw(2, 8)}
AdminPasswords == {"adminpw", "guess"}
Names == {"Ann"}
Phones == {"0300123456"}
Salts == {"s1", "s2"}

MongoUrls == {"unset", "placeholder", "unreachable", "ok"}
Envs == { [MONGODB_URL |-> m, ADMIN_EMAIL |-> a.e, ADMIN_PASSWORD |-> a.p] :
            m \in MongoUrls,
            a \in { [e |-> NoneVal, p |-> NoneVal],
                    [e |-> "admin@x.com", p |-> "adminpw"] } }

-----------------------------------------------------------------------------
(* Python dict helpers: a dict is a function from its keys *)

dict_get(d, k, default) == IF k \in DOMAIN d THEN d[k] ELSE default

dict_has(d, k) == k \in DOMAIN d

dict_update(d, k, v) == (k :> v) @@ d

-----------------------------------------------------------------------------
(* HTTP outcomes *)

HTTPException(code, detail, headers) ==
    [status_code |-> code, detail |-> detail, headers |-> headers]

NoException == HTTPException(HTTP_200, "", NoneVal)

NoPrincipal == [kind |-> "none", email |-> NoneVal, is_admin |-> FALSE]

NoPayload == [k \in {} |-> "None"]

NoToken == [wf |-> FALSE, claims |-> NoPayload, sig |-> <<"absent">>]

\* op: the handler; token: the bearer token presented; principal: what the
\* gate resolved; dbops: the store calls made; issued: the access token
\* returned; body: the documents returned
NoResp == [op |-> "none", token |-> NoToken, status_code |-> 0, detail |-> "",
           headers |-> NoneVal, principal |-> NoPrincipal, dbops |-> {},
           issued |-> NoToken, body |-> {}]

Response(op, token, exc, principal, dbops, issued) ==
    [op |-> op, token |-> token, status_code |-> exc.status_code,
     detail |-> exc.detail, headers |-> exc.headers, principal |-> principal,
     dbops |-> dbops, issued |-> issued, body |-> {}]

DocResponse(op, token, exc, principal, dbops, body) ==
    [op |-> op, token |-> token, status_code |-> exc.status_code,
     detail |-> exc.detail, headers |-> exc.headers, principal |-> principal,
     dbops |-> dbops, issued |-> NoToken, body |-> body]

-----------------------------------------------------------------------------
(* Credential hasher (passlib CryptContext, bcrypt): salted one-way hash *)

\* bcrypt reads the first 72 bytes of the secret and ignores the rest
bcrypt_secret(secret) ==
    IF Len(secret) > bcrypt_truncate_size THEN SubSeq(secret, 1, bcrypt_truncate_size)
    ELSE secret

\* variant: the password is stored as it was given
get_password_hash_plaintext(password, salt) ==
    [scheme |-> "bcrypt", salt |-> salt, digest |-> password]

\* pwd_context.hash: "$2b$<rounds>$<salt><digest>"
get_password_hash(password, salt) ==
    [scheme |-> "bcrypt", salt |-> salt, digest |-> <<salt, bcrypt_secret(password)>>]

\* a stored string that no scheme of the context identifies as its hash
MalformedHash == [scheme |-> "unknown", salt |-> "", digest |-> <<>>]

\* pwd_context.verify: raises UnknownHashError when the hash is not identified
\* as a bcrypt hash, else recomputes the digest with the salt of the hash
pwd_context_verify(secret, hash) ==
    IF hash.scheme # "bcrypt" THEN [raised |-> TRUE, ok |-> FALSE]
    ELSE [raised |-> FALSE, ok |-> hash.digest = <<hash.salt, bcrypt_secret(secret)>>]

\* returns what pwd_context.verify returns, raises what it raises
verify_password(plain_password, hashed_password) ==
    pwd_context_verify(plain_password, hashed_password)

-----------------------------------------------------------------------------
(* Token service (python-jose): HS256 signature over the claims *)

Sign(claims, key) == <<claims, key>>

jwt_encode(claims, key) == [wf |-> TRUE, claims |-> claims, sig |-> Sign(claims, key)]

\* variant: the expiry claim is not checked
jwt_decode_no_expiry(token, key, t) ==
    IF ~token.wf THEN [err |-> TRUE, payload |-> NoPayload]
    ELSE IF token.sig # Sign(token.claims, key) THEN [err |-> TRUE, payload |-> NoPayload]
    ELSE [err |-> FALSE, payload |-> token.claims]

\* jwt.decode: JWTError on a malformed token, a bad signature or exp in the past
jwt_decode(token, key, t) ==
    IF ~token.wf THEN [err |-> TRUE, payload |-> NoPayload]
    ELSE IF token.sig # Sign(token.claims, key) THEN [err |-> TRUE, payload |-> NoPayload]
    ELSE IF dict_has(token.claims, "exp") /\ token.claims["exp"] < t
         THEN [err |-> TRUE, payload |-> NoPayload]
    ELSE [err |-> FALSE, payload |-> token.claims]

\* variant: an explicit expires_delta is ignored
create_access_token_default_ttl(data, expires_delta, t) ==
    jwt_encode(dict_update(data, "exp", t + jwt_expiration_time), jwt_secret_key)

\* expires_delta: Optional[timedelta], <<>> for None and <<d>> for d minutes;
\* "if expires_delta:" is false for None and for a zero timedelta
create_access_token(data, expires_delta, t) ==
    LET truthy == expires_delta # <<>> /\ expires_delta[1] # 0
        expire == IF truthy THEN t + expires_delta[1] ELSE t + jwt_expiration_time
    IN  jwt_encode(dict_update(data, "exp", expire), jwt_secret_key)

credentials_exception == HTTPException(HTTP_401, "Could not validate credentials", "Bearer")

verify_token(token, t) ==
    LET d == jwt_decode(token, jwt_secret_key, t)
        email == dict_get(d.payload, "sub", NoneVal)
    IN  IF d.err THEN [ok |-> FALSE, exc |-> credentials_exception, email |-> NoneVal]
        ELSE IF email = NoneVal
             THEN [ok |-> FALSE, exc |-> credentials_exception, email |-> NoneVal]
        ELSE [ok |-> TRUE, exc |-> NoException, email |-> email]

create_admin_token(email, t) ==
    create_access_token([sub |-> email, is_admin |-> TRUE], <<>>, t)

verify_admin_credentials(email, password, e) ==
    email = e.ADMIN_EMAIL /\ password = e.ADMIN_PASSWORD

admin_credentials_exception == HTTPException(HTTP_401, "Admin access required", "Bearer")

verify_admin_token(token, t) ==
    LET d == jwt_decode(token, jwt_secret_key, t)
        email == dict_get(d.payload, "sub", NoneVal)
        is_admin == dict_get(d.payload, "is_admin", FALSE)
    IN  IF d.err
        THEN [ok |-> FALSE, exc |-> admin_credentials_exception, principal |-> NoPrincipal]
        ELSE IF email = NoneVal \/ ~is_admin
        THEN [ok |-> FALSE, exc |-> admin_credentials_exception, principal |-> NoPrincipal]
        ELSE [ok |-> TRUE, exc |-> NoException,
              principal |-> [kind |-> "admin", email |-> email, is_admin |-> is_admin]]

-----------------------------------------------------------------------------
(* Store access *)

database_unavailable ==
    HTTPException(HTTP_503,
        "Database connection not available. Please check MongoDB configuration.",
        NoneVal)

\* get_database: raises 503 while the handle is unset
get_database(m) ==
    IF m.database = NoneVal THEN [ok |-> FALSE, exc |-> database_unavailable]
    ELSE [ok |-> TRUE, exc |-> NoException]

\* db.users.find_one({"email": email}): the first match, if any
users_has(us, email) == \E i \in 1..Len(us) : us[i].email = email

users_find_one(us, email) ==
    us[CHOOSE i \in 1..Len(us) :
          /\ us[i].email = email
          /\ \A j \in 1..(i - 1) : us[j].email # email]

-----------------------------------------------------------------------------
(* Principal resolver *)

user_not_found == HTTPException(HTTP_401, "User not found", "Bearer")

\* variant: a missing user is reported as 404 Not Found
get_current_user_404(token, us, e, t) ==
    LET token_data == verify_token(token, t)
    IN  IF ~token_data.ok
        THEN [ok |-> FALSE, exc |-> token_data.exc, principal |-> NoPrincipal, dbops |-> {}]
        ELSE IF ~users_has(us, token_data.email)
        THEN [ok |-> FALSE, exc |-> HTTPException(HTTP_404, "User not found", NoneVal),
              principal |-> NoPrincipal, dbops |-> {"users.find_one"}]
        ELSE LET user == users_find_one(us, token_data.email)
             IN  [ok |-> TRUE, exc |-> NoException,
                  principal |-> [kind |-> "user", email |-> user.email,
                                 is_admin |-> (user.email = e.ADMIN_EMAIL)],
                  dbops |-> {"users.find_one"}]

\* variant: a token carrying an is_admin claim is refused
get_current_user_no_admin_claim(token, us, e, t) ==
    LET token_data == verify_token(token, t)
    IN  IF ~token_data.ok \/ dict_has(token.claims, "is_admin")
        THEN [ok |-> FALSE, exc |-> credentials_exception, principal |-> NoPrincipal,
              dbops |-> {}]
        ELSE IF ~users_has(us, token_data.email)
        THEN [ok |-> FALSE, exc |-> user_not_found, principal |-> NoPrincipal,
              dbops |-> {"users.find_one"}]
        ELSE LET user == users_find_one(us, token_data.email)
             IN  [ok |-> TRUE, exc |-> NoException,
                  principal |-> [kind |-> "user", email |-> user.email,
                                 is_admin |-> (user.email = e.ADMIN_EMAIL)],
                  dbops |-> {"users.find_one"}]

\* variant: is_admin is taken from the token's claim
get_current_user_claim_admin(token, us, e, t) ==
    LET token_data == verify_token(token, t)
    IN  IF ~token_data.ok
        THEN [ok |-> FALSE, exc |-> token_data.exc, principal |-> NoPrincipal, dbops |-> {}]
        ELSE IF ~users_has(us, token_data.email)
        THEN [ok |-> FALSE, exc |-> user_not_found, principal |-> NoPrincipal,
              dbops |-> {"users.find_one"}]
        ELSE LET user == users_find_one(us, token_data.email)
             IN  [ok |-> TRUE, exc |-> NoException,
                  principal |-> [kind |-> "user", email |-> user.email,
                                 is_admin |-> dict_get(token.claims, "is_admin", FALSE)],
                  dbops |-> {"users.find_one"}]

\* get_current_user, the body: called with the bearer token and the database
\* handle once both dependencies are resolved.  dbops lists the store calls made.
get_current_user(token, us, e, t) ==
    LET token_data == verify_token(token, t)
    IN  IF ~token_data.ok
        THEN [ok |-> FALSE, exc |-> token_data.exc, principal |-> NoPrincipal, dbops |-> {}]
        ELSE IF ~users_has(us, token_data.email)
        THEN [ok |-> FALSE, exc |-> user_not_found, principal |-> NoPrincipal,
              dbops |-> {"users.find_one"}]
        ELSE LET user == users_find_one(us, token_data.email)
                 admin_email == e.ADMIN_EMAIL
                 is_admin == (user.email = admin_email)
             IN  [ok |-> TRUE, exc |-> NoException,
                  principal |-> [kind |-> "user", email |-> user.email,
                                 is_admin |-> is_admin],
                  dbops |-> {"users.find_one"}]

\* Depends(get_current_user): its own dependencies first (HTTPBearer, then
\* get_database, which raises 503 while the handle is unset), then the body
Depends_get_current_user(token, m, us, e, t) ==
    LET db == get_database(m)
    IN  IF ~db.ok
        THEN [ok |-> FALSE, exc |-> db.exc, principal |-> NoPrincipal, dbops |-> {}]
        ELSE get_current_user(token, us, e, t)

\* variant: the admin must have a user record
get_current_admin_with_lookup(token, t) ==
    LET admin_data == verify_admin_token(token, t)
    IN  IF admin_data.ok /\ ~users_has(users, admin_data.principal.email)
        THEN [ok |-> FALSE, exc |-> admin_credentials_exception,
              principal |-> NoPrincipal, dbops |-> {"users.find_one"}]
        ELSE [ok |-> admin_data.ok, exc |-> admin_data.exc,
              principal |-> admin_data.principal,
              dbops |-> IF admin_data.ok THEN {"users.find_one"} ELSE {}]

\* get_current_admin: HTTPBearer, then verify_admin_token; no store dependency
get_current_admin(token, t) ==
    LET admin_data == verify_admin_token(token, t)
    IN  [ok |-> admin_data.ok, exc |-> admin_data.exc,
         principal |-> admin_data.principal, dbops |-> {}]

-----------------------------------------------------------------------------
(* Tokens a client can present *)

FarFuture == MaxNow + 2 * jwt_expiration_time

\* signed with a key that is not the server's
Forged == { jwt_encode([sub |-> e, is_admin |-> TRUE, exp |-> FarFuture], AttackerKey) :
              e \in {"admin@x.com"} }

\* an issued token whose payload was edited, the signature left as it was
Tampered == { [i.token EXCEPT !.claims =
                   dict_update(dict_update(i.token.claims, "is_admin", TRUE),
                               "exp", FarFuture)] : i \in tokens }

\* a string that is no JWT
Garbage == [wf |-> FALSE, claims |-> NoPayload, sig |-> <<"garbage">>]

Issued == { i.token : i \in tokens }

Presentable == Issued \cup Forged \cup Tampered \cup {Garbage}

Issuance(token, data, expires_delta, t, by) ==
    [token |-> token, data |-> data, expires_delta |-> expires_delta,
     issued_at |-> t, by |-> by]

-----------------------------------------------------------------------------
(* Start-up, the clock and the request cycle *)

\* the service is up and no request is being served
Idle == lifespan = "serving" /\ resp = NoResp

\* the response of the request served is sent; the next request may come
send_response ==
    /\ resp # NoResp
    /\ resp' = NoResp
    /\ UNCHANGED <<env, inflight, lifespan, mongodb, now, store, tokens>>

Init ==
    /\ env \in Envs
    /\ lifespan = "startup"
    /\ mongodb = [client |-> NoneVal, database |-> NoneVal]
    /\ now = 0
    /\ users = <<>>
    /\ products = {}
    /\ orders = {}
    /\ contact_messages = {}
    /\ nextId = 1
    /\ tokens = {}
    /\ resp = NoResp
    /\ inflight = <<>>

\* variant: the handle is set as soon as the client is constructed
connect_to_mongo_handle_before_ping ==
    /\ lifespan = "startup"
    /\ lifespan' = "serving"
    /\ mongodb' =
         IF env.MONGODB_URL \in {"unset", "placeholder"} THEN mongodb
         ELSE [client |-> "client", database |-> "sunainscent"]
    /\ resp' = NoResp
    /\ UNCHANGED <<env, inflight, now, store, tokens>>

\* main.lifespan start-up: config/database.connect_to_mongo
connect_to_mongo ==
    /\ lifespan = "startup"
    /\ lifespan' = "serving"
    /\ mongodb' =
         IF env.MONGODB_URL = "unset" THEN mongodb
         ELSE IF env.MONGODB_URL = "placeholder" THEN mongodb
         ELSE IF env.MONGODB_URL = "unreachable"
              THEN [mongodb EXCEPT !.client = "client"]
         ELSE [client |-> "client", database |-> "sunainscent"]
    /\ resp' = NoResp
    /\ UNCHANGED <<env, inflight, now, store, tokens>>

Tick ==
    /\ Idle
    /\ now + TickStep <= MaxNow
    /\ now' = now + TickStep
    /\ resp' = NoResp
    /\ UNCHANGED <<env, inflight, lifespan, mongodb, store, tokens>>

\* main.py: handlers that need no store
NoStoreRead(op) ==
    /\ Idle
    /\ resp' = Response(op, NoToken, NoException, NoPrincipal, {}, NoToken)
    /\ UNCHANGED <<env, inflight, lifespan, mongodb, now, store, tokens>>

read_root == NoStoreRead("read_root")

health_check == NoStoreRead("health_check")

-----------------------------------------------------------------------------
(* routes/auth.py *)

\* variant: an existing record with the same email is replaced
register_user_body_upsert(email, password, first_name, phone, salt, us, t) ==
    LET user_doc == [email |-> email,
                     hashed_password |-> get_password_hash(password, salt),
                     first_name |-> first_name,
                     phone |-> phone,
                     created_at |-> t]
    IN  IF users_has(us, email)
        THEN [exc |-> HTTPException(HTTP_400, "Email already registered", NoneVal),
              principal |-> NoPrincipal,
              dbops |-> {"users.find_one"},
              users |-> [i \in 1..Len(us) |->
                            IF us[i].email = email THEN user_doc ELSE us[i]]]
        ELSE [exc |-> NoException,
              principal |-> [kind |-> "user", email |-> email, is_admin |-> FALSE],
              dbops |-> {"users.find_one", "users.insert_one"},
              users |-> Append(us, user_doc)]

\* variant: the new record replaces the collection
register_user_body_replace_all(email, password, first_name, phone, salt, us, t) ==
    LET user_doc == [email |-> email,
                     hashed_password |-> get_password_hash(password, salt),
                     first_name |-> first_name,
                     phone |-> phone,
                     created_at |-> t]
    IN  IF users_has(us, email)
        THEN [exc |-> HTTPException(HTTP_400, "Email already registered", NoneVal),
              principal |-> NoPrincipal,
              dbops |-> {"users.find_one"},
              users |-> us]
        ELSE [exc |-> NoException,
              principal |-> [kind |-> "user", email |-> email, is_admin |-> FALSE],
              dbops |-> {"users.find_one", "users.insert_one"},
              users |-> <<user_doc>>]

\* register_user once get_database has returned a handle
register_user_body(email, password, first_name, phone, salt, us, t) ==
    LET user_doc == [email |-> email,
                     hashed_password |-> get_password_hash(password, salt),
                     first_name |-> first_name,
                     phone |-> phone,
                     created_at |-> t]
    IN  IF users_has(us, email)
        THEN [exc |-> HTTPException(HTTP_400, "Email already registered", NoneVal),
              principal |-> NoPrincipal,
              dbops |-> {"users.find_one"},
              users |-> us]
        ELSE [exc |-> NoException,
              principal |-> [kind |-> "user", email |-> email, is_admin |-> FALSE],
              dbops |-> {"users.find_one", "users.insert_one"},
              users |-> Append(us, user_doc)]

register_user ==
    /\ Idle
    /\ \E email \in Emails, password \in Passwords, first_name \in Names,
          phone \in Phones, salt \in Salts :
         LET db == get_database(mongodb)
             out == register_user_body(email, password, first_name, phone, salt,
                                       users, now)
         IN  IF ~db.ok
             THEN /\ resp' = Response("register_user", NoToken, db.exc, NoPrincipal, {}, NoToken)
                  /\ users' = users
             ELSE /\ Len(out.users) <= MaxUsers
                  /\ users' = out.users
                  /\ resp' = Response("register_user", NoToken, out.exc, out.principal,
                                      out.dbops, NoToken)
    /\ UNCHANGED <<env, inflight, lifespan, mongodb, now, products, orders, contact_messages,
                   nextId, tokens>>

-----------------------------------------------------------------------------
(* register_user as the event loop runs it: the coroutine is suspended at   *)
(* each await, and other requests run in between                            *)

RegisterInputs ==
    {[email |-> e, password |-> p, first_name |-> n, phone |-> ph] :
        e \in Emails, p \in Passwords, n \in Names, ph \in Phones}

RemoveAt(seq, k) == SubSeq(seq, 1, k - 1) \o SubSeq(seq, k + 1, Len(seq))

\* up to "existing_user = await db.users.find_one(...)" and the check of it:
\* the request ends with 400, or goes on to build and insert its document
register_user_find_one ==
    /\ lifespan = "serving"
    /\ mongodb.database # NoneVal
    /\ \E user \in RegisterInputs :
         IF users_has(users, user.email)
         THEN /\ resp = NoResp
              /\ resp' = Response("register_user", NoToken,
                                  HTTPException(HTTP_400, "Email already registered", NoneVal),
                                  NoPrincipal, {"users.find_one"}, NoToken)
              /\ inflight' = inflight
         ELSE /\ Len(inflight) < MaxInflight
              /\ inflight' = Append(inflight, user)
              /\ resp' = resp
    /\ UNCHANGED <<env, lifespan, mongodb, now, store, tokens>>

\* from the hashing to the return: "await db.users.insert_one(user_doc)" and
\* the read of the inserted document
register_user_insert_one ==
    /\ resp = NoResp
    /\ Len(users) < MaxUsers
    /\ \E k \in 1..Len(inflight), salt \in Salts :
         LET user == inflight[k]
             user_doc == [email |-> user.email,
                          hashed_password |-> get_password_hash(user.password, salt),
                          first_name |-> user.first_name,
                          phone |-> user.phone,
                          created_at |-> now]
         IN  /\ users' = Append(users, user_doc)
             /\ inflight' = RemoveAt(inflight, k)
             /\ resp' = Response("register_user", NoToken, NoException,
                                 [kind |-> "user", email |-> user.email, is_admin |-> FALSE],
                                 {"users.find_one", "users.insert_one"}, NoToken)
    /\ UNCHANGED <<env, lifespan, mongodb, now, products, orders, contact_messages,
                   nextId, tokens>>

InitRegister ==
    /\ env \in {e \in Envs : e.MONGODB_URL = "ok"}
    /\ lifespan = "serving"
    /\ mongodb = [client |-> "client", database |-> "sunainscent"]
    /\ now = 0
    /\ users = <<>>
    /\ products = {}
    /\ orders = {}
    /\ contact_messages = {}
    /\ nextId = 1
    /\ tokens = {}
    /\ resp = NoResp
    /\ inflight = <<>>

NextRegister ==
    \/ register_user_find_one
    \/ register_user_insert_one
    \/ send_response

SpecRegister == InitRegister /\ [][NextRegister]_vars

incorrect_credentials == HTTPException(HTTP_401, "Incorrect email or password", "Bearer")

\* an exception no handler catches: the framework answers 500
internal_server_error == HTTPException(HTTP_500, "Internal Server Error", NoneVal)

\* variant: the password is not checked
login_user_body_no_password_check(email, password, us, t) ==
    IF ~users_has(us, email)
    THEN [exc |-> incorrect_credentials, issued |-> NoToken]
    ELSE [exc |-> NoException,
          issued |-> create_access_token([sub |-> users_find_one(us, email).email], <<>>, t)]

\* variant: an unknown email is reported as such
login_user_body_user_not_found(email, password, us, t) ==
    IF ~users_has(us, email)
    THEN [exc |-> HTTPException(HTTP_404, "User not found", NoneVal), issued |-> NoToken]
    ELSE IF ~verify_password(password, users_find_one(us, email).hashed_password).ok
    THEN [exc |-> incorrect_credentials, issued |-> NoToken]
    ELSE [exc |-> NoException,
          issued |-> create_access_token([sub |-> email], <<>>, t)]

\* login_user once the database handle is resolved: the outcome and the token
login_user_body(email, password, us, t) ==
    IF ~users_has(us, email)
    THEN [exc |-> incorrect_credentials, issued |-> NoToken]
    ELSE LET user == users_find_one(us, email)
             verified == verify_password(password, user.hashed_password)
         IN  IF verified.raised
             THEN [exc |-> internal_server_error, issued |-> NoToken]
             ELSE IF ~verified.ok
             THEN [exc |-> incorrect_credentials, issued |-> NoToken]
             ELSE [exc |-> NoException,
                   issued |-> create_access_token([sub |-> user.email], <<>>, t)]

login_user ==
    /\ Idle
    /\ \E email \in Emails, password \in Passwords :
         LET db == get_database(mongodb)
             out == login_user_body(email, password, users, now)
             i == Issuance(out.issued, [sub |-> email], <<>>, now, "login_user")
         IN  IF ~db.ok
             THEN /\ resp' = Response("login_user", NoToken, db.exc, NoPrincipal, {}, NoToken)
                  /\ tokens' = tokens
             ELSE /\ out.issued # NoToken
                     => (i \in tokens \/ Cardinality(tokens) < MaxTokens)
                  /\ tokens' = IF out.issued # NoToken THEN tokens \cup {i} ELSE tokens
                  /\ resp' = Response("login_user", NoToken, out.exc, NoPrincipal,
                                      {"users.find_one"}, out.issued)
    /\ UNCHANGED <<env, inflight, lifespan, mongodb, now, store>>

\* the admin-login collaborator: verify_admin_credentials, then create_admin_token
admin_login ==
    /\ Idle
    /\ \E email \in Emails, password \in AdminPasswords :
         IF ~verify_admin_credentials(email, password, env)
         THEN /\ resp' = Response("admin_login", NoToken,
                                  HTTPException(HTTP_401, "Invalid admin credentials", "Bearer"),
                                  NoPrincipal, {}, NoToken)
              /\ tokens' = tokens
         ELSE LET access_token == create_admin_token(email, now)
                  i == Issuance(access_token, [sub |-> email, is_admin |-> TRUE], <<>>,
                                now, "create_admin_token")
              IN  /\ i \in tokens \/ Cardinality(tokens) < MaxTokens
                  /\ tokens' = tokens \cup {i}
                  /\ resp' = Response("admin_login", NoToken, NoException,
                                      NoPrincipal, {}, access_token)
    /\ UNCHANGED <<env, inflight, lifespan, mongodb, now, store>>

\* a handler that only requires the user gate and reads nothing more
UserGatedRead(op) ==
    /\ Idle
    /\ \E token \in Presentable :
         LET current_user == Depends_get_current_user(token, mongodb, users, env, now)
         IN  resp' = Response(op, token, current_user.exc, current_user.principal,
                              current_user.dbops, NoToken)
    /\ UNCHANGED <<env, inflight, lifespan, mongodb, now, store, tokens>>

get_current_user_profile == UserGatedRead("get_current_user_profile")

verify_token_route == UserGatedRead("verify_token_route")

-----------------------------------------------------------------------------
(* routes/admin.py: the user gate followed by the is_admin check *)

admin_access_required == HTTPException(HTTP_403, "Admin access required", NoneVal)

\* variant: the is_admin check is missing
AdminRouterRead_unchecked(op, queries) ==
    /\ Idle
    /\ \E token \in Presentable :
         LET current_user == Depends_get_current_user(token, mongodb, users, env, now)
         IN  IF ~current_user.ok
             THEN resp' = Response(op, token, current_user.exc, NoPrincipal,
                                   current_user.dbops, NoToken)
             ELSE resp' = Response(op, token, NoException, current_user.principal,
                                   current_user.dbops \cup queries, NoToken)
    /\ UNCHANGED <<env, inflight, lifespan, mongodb, now, store, tokens>>

\* queries: the store calls the handler makes once past the check
AdminRouterRead(op, queries) ==
    /\ Idle
    /\ \E token \in Presentable :
         LET current_user == Depends_get_current_user(token, mongodb, users, env, now)
         IN  IF ~current_user.ok
             THEN resp' = Response(op, token, current_user.exc, NoPrincipal,
                                   current_user.dbops, NoToken)
             ELSE IF ~current_user.principal.is_admin
             THEN resp' = Response(op, token, admin_access_required,
                                   current_user.principal, current_user.dbops, NoToken)
             ELSE resp' = Response(op, token, NoException, current_user.principal,
                                   current_user.dbops \cup queries, NoToken)
    /\ UNCHANGED <<env, inflight, lifespan, mongodb, now, store, tokens>>

verify_admin_access == AdminRouterRead("verify_admin_access", {})

get_dashboard_stats ==
    AdminRouterRead("get_dashboard_stats",
        {"products.count_documents", "orders.count_documents", "orders.aggregate",
         "contact_messages.count_documents", "users.count_documents",
         "orders.find", "contact_messages.find"})

get_product_stats ==
    AdminRouterRead("get_product_stats", {"products.count_documents", "products.aggregate"})

get_user_stats ==
    AdminRouterRead("get_user_stats", {"users.count_documents", "users.find"})

get_analytics_summary == AdminRouterRead("get_analytics_summary", {"orders.aggregate"})

AdminRouterOps == {"verify_admin_access", "get_dashboard_stats", "get_product_stats",
                   "get_user_stats", "get_analytics_summary"}

StatsQueries == {"products.count_documents", "products.aggregate",
                 "orders.count_documents", "orders.aggregate", "orders.find",
                 "contact_messages.count_documents", "contact_messages.find",
                 "users.count_documents", "users.find"}

-----------------------------------------------------------------------------

Next ==
    \/ connect_to_mongo
    \/ send_response
    \/ Tick
    \/ read_root
    \/ health_check
    \/ register_user
    \/ login_user
    \/ admin_login
    \/ get_current_user_profile
    \/ verify_token_route
    \/ verify_admin_access
    \/ get_dashboard_stats
    \/ get_product_stats
    \/ get_user_stats
    \/ get_analytics_summary

Spec == Init /\ [][Next]_vars

-----------------------------------------------------------------------------
(* The token service and the principal resolver called directly, on every   *)
(* claims set and ttl and over every content of the user store              *)

ClaimSets == {[sub |-> e] : e \in Emails}
             \cup {[sub |-> e, is_admin |-> TRUE] : e \in Emails}
             \cup {NoPayload, [is_admin |-> TRUE]}

TTLs == {<<>>, <<0>>, <<jwt_expiration_time>>, <<3 * jwt_expiration_time>>,
         <<0 - jwt_expiration_time>>}

UserDoc(email) ==
    [email |-> email, hashed_password |-> get_password_hash(Pw(1, 8), "s1"),
     first_name |-> "Ann", phone |-> "0300123456", created_at |-> 0]

StoreContents ==
    {<<>>} \cup {<<UserDoc(e)>> : e \in Emails}
           \cup {<<UserDoc(p[1]), UserDoc(p[2])>> :
                    p \in {q \in Emails \X Emails : q[1] # q[2]}}

InitToken ==
    /\ env \in Envs
    /\ Idle
    /\ mongodb = IF env.MONGODB_URL = "ok"
                 THEN [client |-> "client", database |-> "sunainscent"]
                 ELSE IF env.MONGODB_URL = "unreachable"
                 THEN [client |-> "client", database |-> NoneVal]
                 ELSE [client |-> NoneVal, database |-> NoneVal]
    /\ now = 0
    /\ users \in StoreContents
    /\ products = {}
    /\ orders = {}
    /\ contact_messages = {}
    /\ nextId = 1
    /\ tokens = {}
    /\ resp = NoResp
    /\ inflight = <<>>

call_create_access_token ==
    /\ Idle
    /\ \E data \in ClaimSets, expires_delta \in TTLs :
         LET token == create_access_token(data, expires_delta, now)
             i == Issuance(token, data, expires_delta, now, "create_access_token")
         IN  /\ i \in tokens \/ Cardinality(tokens) < MaxTokens
             /\ tokens' = tokens \cup {i}
             /\ resp' = Response("create_access_token", NoToken, NoException, NoPrincipal,
                                 {}, token)
    /\ UNCHANGED <<env, inflight, lifespan, mongodb, now, store>>

call_create_admin_token ==
    /\ Idle
    /\ \E email \in Emails :
         LET token == create_admin_token(email, now)
             i == Issuance(token, [sub |-> email, is_admin |-> TRUE], <<>>, now,
                           "create_admin_token")
         IN  /\ i \in tokens \/ Cardinality(tokens) < MaxTokens
             /\ tokens' = tokens \cup {i}
             /\ resp' = Response("create_admin_token", NoToken, NoException, NoPrincipal,
                                 {}, token)
    /\ UNCHANGED <<env, inflight, lifespan, mongodb, now, store>>

call_verify_token ==
    /\ Idle
    /\ \E token \in Presentable :
         LET token_data == verify_token(token, now)
         IN  resp' = Response("verify_token", token, token_data.exc,
                              [kind |-> "token_data", email |-> token_data.email,
                               is_admin |-> FALSE],
                              {}, NoToken)
    /\ UNCHANGED <<env, inflight, lifespan, mongodb, now, store, tokens>>

\* get_current_user called with a database handle
call_get_current_user ==
    /\ Idle
    /\ mongodb.database # NoneVal
    /\ \E token \in Presentable :
         LET current_user == get_current_user(token, users, env, now)
         IN  resp' = Response("get_current_user", token, current_user.exc,
                              current_user.principal, current_user.dbops, NoToken)
    /\ UNCHANGED <<env, inflight, lifespan, mongodb, now, store, tokens>>

call_get_current_admin ==
    /\ Idle
    /\ \E token \in Presentable :
         LET current_admin == get_current_admin(token, now)
         IN  resp' = Response("get_current_admin", token, current_admin.exc,
                              current_admin.principal, current_admin.dbops, NoToken)
    /\ UNCHANGED <<env, inflight, lifespan, mongodb, now, store, tokens>>

NextToken ==
    \/ Tick
    \/ send_response
    \/ call_create_access_token
    \/ call_create_admin_token
    \/ call_verify_token
    \/ call_get_current_user
    \/ call_get_current_admin

SpecToken == InitToken /\ [][NextToken]_vars

-----------------------------------------------------------------------------
(* The document collections behind the product, order and contact routers *)

\* Optional[T] request fields: <<>> for None, <<v>> for a value
provided(update) == {k \in DOMAIN update : update[k] # <<>>}

\* variant: fields left out of the request are written as null
update_fields_with_nulls(update) ==
    [k \in DOMAIN update |-> IF update[k] = <<>> THEN NoneVal ELSE update[k][1]]

\* {k: v for k, v in update.dict().items() if v is not None}
update_fields(update) == [k \in provided(update) |-> update[k][1]]

\* update_one(..., {"$set": update_data}) on one document
mongo_set(doc, update_data) ==
    [k \in DOMAIN doc \cup DOMAIN update_data |->
        IF k \in DOMAIN update_data THEN update_data[k] ELSE doc[k]]

find_by_id(collection, id) == {d \in collection : d._id = id}

\* bson ObjectId.is_valid: 0 stands for a string that is no ObjectId
ObjectId_is_valid(id) == id >= 1

IdInputs == 0..MaxDocs

OrderStatus == {"pending", "confirmed", "processing", "shipped", "delivered", "cancelled"}

ProductCreates ==
    {[name |-> "Oud", description |-> "Oud attar", price |-> 30, category |-> "attar",
      image_url |-> NoneVal, stock_quantity |-> 0, is_active |-> a] : a \in BOOLEAN}

ProductUpdates ==
    {[name |-> n, description |-> <<>>, price |-> <<>>, category |-> <<>>,
      image_url |-> <<>>, stock_quantity |-> <<>>, is_active |-> a] :
        n \in {<<>>, <<"Rose">>}, a \in {<<>>, <<TRUE>>, <<FALSE>>}}

OrderCreates ==
    {[customer_email |-> "a@x.com", customer_name |-> "Ann Lee", items |-> it,
      shipping_address |-> [full_name |-> "Ann Lee", street_address |-> "12 Main Street",
                           city |-> "Lahore", state |-> "Punjab",
                           postal_code |-> "54000", country |-> "Pakistan",
                           phone |-> NoneVal],
      notes |-> NoneVal] :
        it \in {<<[product_id |-> "p1", product_name |-> "Oud", price |-> 30,
                   quantity |-> 2]>>,
                <<[product_id |-> "p1", product_name |-> "Oud", price |-> 30,
                   quantity |-> 2],
                  [product_id |-> "p2", product_name |-> "Rose", price |-> 15,
                   quantity |-> 1]>>}}

\* request bodies of POST /orders/: the declared fields, with or without
\* fields the model does not declare
OrderRequestBodies ==
    OrderCreates
       \cup {[status |-> "delivered", total_amount |-> 0, admin_notes |-> "paid"] @@ o :
                o \in OrderCreates}

\* OrderCreate(**body): pydantic keeps the declared fields only
OrderCreate_parse(body) ==
    [k \in {"customer_email", "customer_name", "items", "shipping_address", "notes"}
        |-> body[k]]

OrderUpdates ==
    {[status |-> st, admin_notes |-> n] :
        st \in {<<>>, <<"confirmed">>, <<"cancelled">>}, n \in {<<>>, <<"checked">>}}

StatusInputs == {"confirmed", "cancelled"}

ContactMessages ==
    {[name |-> "Ann Lee", email |-> "a@x.com", phone |-> NoneVal,
      subject |-> "Product inquiry", message |-> "Is the oud in stock?"]}

ContactMessageUpdates ==
    {[is_read |-> r, admin_notes |-> n] :
        r \in {<<>>, <<TRUE>>, <<FALSE>>}, n \in {<<>>, <<"replied">>}}

OrderSuffixes == {"0A1B2C3D"}

\* generate_order_number: "SUN-<date>-<8 random hex digits>"
generate_order_number(t, suffix) == <<"SUN", t, suffix>>

RECURSIVE sum_items(_)
\* sum(item.price * item.quantity for item in order.items)
sum_items(items) ==
    IF items = <<>> THEN 0
    ELSE Head(items).price * Head(items).quantity + sum_items(Tail(items))

not_found(what) == HTTPException(HTTP_404, what, NoneVal)

bad_request(what) == HTTPException(HTTP_400, what, NoneVal)

\* what a handler body does once its dependencies are resolved: the outcome,
\* the store calls, the documents returned and the collections afterwards
Out(exc, dbops, body) ==
    [exc |-> exc, dbops |-> dbops, body |-> body, products |-> products,
     orders |-> orders, contact_messages |-> contact_messages, nextId |-> nextId]

Apply(op, token, principal, out) ==
    /\ resp' = DocResponse(op, token, out.exc, principal, out.dbops, out.body)
    /\ products' = out.products
    /\ orders' = out.orders
    /\ contact_messages' = out.contact_messages
    /\ nextId' = out.nextId
    /\ UNCHANGED users

\* a public handler: Depends(get_database), then the body
Public(op, out) ==
    LET db == get_database(mongodb)
    IN  IF ~db.ok
        THEN /\ resp' = Response(op, NoToken, db.exc, NoPrincipal, {}, NoToken)
             /\ UNCHANGED store
        ELSE Apply(op, NoToken, NoPrincipal, out)

\* variant: the body runs whatever the user gate says
UserGated_body_first(op, token, current_user, out) ==
    IF ~current_user.ok
    THEN /\ resp' = Response(op, token, current_user.exc, NoPrincipal,
                             current_user.dbops, NoToken)
         /\ products' = out.products
         /\ orders' = out.orders
         /\ contact_messages' = out.contact_messages
         /\ nextId' = out.nextId
         /\ UNCHANGED users
    ELSE Apply(op, token, current_user.principal,
               [out EXCEPT !.dbops = current_user.dbops \cup out.dbops])

\* a handler behind Depends(get_current_user): the body runs only when the
\* gate resolved a user
UserGated(op, token, current_user, out) ==
    IF ~current_user.ok
    THEN /\ resp' = Response(op, token, current_user.exc, NoPrincipal,
                             current_user.dbops, NoToken)
         /\ UNCHANGED store
    ELSE Apply(op, token, current_user.principal,
               [out EXCEPT !.dbops = current_user.dbops \cup out.dbops])

\* variant: any well-signed, unexpired token with a subject passes the admin gate
AdminGated_any_subject(op, token, out) ==
    LET token_data == verify_token(token, now)
        db == get_database(mongodb)
    IN  IF ~token_data.ok
        THEN /\ resp' = Response(op, token, admin_credentials_exception, NoPrincipal, {},
                                 NoToken)
             /\ UNCHANGED store
        ELSE IF ~db.ok
        THEN /\ resp' = Response(op, token, db.exc, NoPrincipal, {}, NoToken)
             /\ UNCHANGED store
        ELSE Apply(op, token,
                   [kind |-> "admin", email |-> token_data.email, is_admin |-> TRUE], out)

\* variant: the admin gate fails with 403 Forbidden
AdminGated_forbidden(op, token, out) ==
    LET current_admin == get_current_admin(token, now)
        db == get_database(mongodb)
    IN  IF ~current_admin.ok
        THEN /\ resp' = Response(op, token, admin_access_required, NoPrincipal, {}, NoToken)
             /\ UNCHANGED store
        ELSE IF ~db.ok
        THEN /\ resp' = Response(op, token, db.exc, current_admin.principal, {}, NoToken)
             /\ UNCHANGED store
        ELSE Apply(op, token, current_admin.principal, out)

\* a handler behind Depends(get_current_admin), followed by
\* Depends(get_database): the body runs only for an admin token
AdminGated(op, token, out) ==
    LET current_admin == get_current_admin(token, now)
        db == get_database(mongodb)
    IN  IF ~current_admin.ok
        THEN /\ resp' = Response(op, token, current_admin.exc, NoPrincipal, {}, NoToken)
             /\ UNCHANGED store
        ELSE IF ~db.ok
        THEN /\ resp' = Response(op, token, db.exc, current_admin.principal, {}, NoToken)
             /\ UNCHANGED store
        ELSE Apply(op, token, current_admin.principal, out)

-----------------------------------------------------------------------------
(* routes/products.py *)

create_product_body(product) ==
    LET product_doc == [_id |-> nextId, name |-> product.name,
                        description |-> product.description, price |-> product.price,
                        category |-> product.category, image_url |-> product.image_url,
                        stock_quantity |-> product.stock_quantity,
                        is_active |-> product.is_active,
                        created_at |-> now, updated_at |-> now]
    IN  [Out(NoException, {"products.insert_one", "products.find_one"}, {product_doc})
            EXCEPT !.products = products \cup {product_doc}, !.nextId = nextId + 1]

create_product ==
    /\ Idle
    /\ nextId <= MaxDocs
    /\ \E token \in Presentable, product \in ProductCreates :
         UserGated("create_product", token,
                   Depends_get_current_user(token, mongodb, users, env, now),
                   create_product_body(product))
    /\ UNCHANGED <<env, inflight, lifespan, mongodb, now, tokens>>

\* category: Optional[str], <<>> for None; for the values drawn here the
\* case-insensitive $regex match is equality.  search is left out (None).
get_all_products ==
    /\ Idle
    /\ \E category \in {<<>>, <<"attar">>, <<"musk">>} :
         Public("get_all_products",
                Out(NoException, {"products.find"},
                    {d \in products :
                        /\ d.is_active
                        /\ category # <<>> => d.category = category[1]}))
    /\ UNCHANGED <<env, inflight, lifespan, mongodb, now, tokens>>

get_product_body(product_id) ==
    IF ~ObjectId_is_valid(product_id) THEN Out(bad_request("Invalid product ID"), {}, {})
    ELSE IF {d \in find_by_id(products, product_id) : d.is_active} = {}
    THEN Out(not_found("Product not found"), {"products.find_one"}, {})
    ELSE Out(NoException, {"products.find_one"},
             {d \in find_by_id(products, product_id) : d.is_active})

get_product ==
    /\ Idle
    /\ \E product_id \in IdInputs :
         Public("get_product", get_product_body(product_id))
    /\ UNCHANGED <<env, inflight, lifespan, mongodb, now, tokens>>

\* db.products.distinct("category", {"is_active": True})
get_categories ==
    /\ Idle
    /\ Public("get_categories",
              Out(NoException, {"products.distinct"},
                  {d.category : d \in {x \in products : x.is_active}}))
    /\ UNCHANGED <<env, inflight, lifespan, mongodb, now, tokens>>

update_product_body(product_id, product_update) ==
    IF ~ObjectId_is_valid(product_id) THEN Out(bad_request("Invalid product ID"), {}, {})
    ELSE IF find_by_id(products, product_id) = {}
    THEN Out(not_found("Product not found"), {"products.find_one"}, {})
    ELSE LET update_data == dict_update(update_fields(product_update), "updated_at", now)
             after == {IF d._id = product_id THEN mongo_set(d, update_data) ELSE d :
                          d \in products}
         IN  [Out(NoException, {"products.find_one", "products.update_one"},
                  find_by_id(after, product_id))
                 EXCEPT !.products = after]

update_product ==
    /\ Idle
    /\ \E token \in Presentable, product_id \in IdInputs, product_update \in ProductUpdates :
         UserGated("update_product", token,
                   Depends_get_current_user(token, mongodb, users, env, now),
                   update_product_body(product_id, product_update))
    /\ UNCHANGED <<env, inflight, lifespan, mongodb, now, tokens>>

\* variant: the record is removed
delete_product_body_hard(product_id) ==
    IF ~ObjectId_is_valid(product_id) THEN Out(bad_request("Invalid product ID"), {}, {})
    ELSE IF find_by_id(products, product_id) = {}
    THEN Out(not_found("Product not found"), {"products.delete_one"}, {})
    ELSE [Out(NoException, {"products.delete_one"}, {})
             EXCEPT !.products = {d \in products : d._id # product_id}]

delete_product_body(product_id) ==
    IF ~ObjectId_is_valid(product_id) THEN Out(bad_request("Invalid product ID"), {}, {})
    ELSE IF find_by_id(products, product_id) = {}
    THEN Out(not_found("Product not found"), {"products.update_one"}, {})
    ELSE [Out(NoException, {"products.update_one"}, {})
             EXCEPT !.products =
                {IF d._id = product_id
                 THEN mongo_set(d, [is_active |-> FALSE, updated_at |-> now])
                 ELSE d : d \in products}]

delete_product ==
    /\ Idle
    /\ \E token \in Presentable, product_id \in IdInputs :
         UserGated("delete_product", token,
                   Depends_get_current_user(token, mongodb, users, env, now),
                   delete_product_body(product_id))
    /\ UNCHANGED <<env, inflight, lifespan, mongodb, now, tokens>>

-----------------------------------------------------------------------------
(* routes/orders.py *)

\* variant: fields of the request body win over the computed ones
create_order_body_client_wins(body, suffix) ==
    LET order == OrderCreate_parse(body)
        computed == [_id |-> nextId, customer_email |-> order.customer_email,
                     customer_name |-> order.customer_name, items |-> order.items,
                     shipping_address |-> order.shipping_address, notes |-> order.notes,
                     order_number |-> generate_order_number(now, suffix),
                     total_amount |-> sum_items(order.items),
                     status |-> "pending", created_at |-> now, updated_at |-> now,
                     admin_notes |-> NoneVal]
        order_doc == [k \in DOMAIN computed |->
                         IF k \in DOMAIN body THEN body[k] ELSE computed[k]]
    IN  [Out(NoException, {"orders.insert_one", "orders.find_one"}, {order_doc})
            EXCEPT !.orders = orders \cup {order_doc}, !.nextId = nextId + 1]

create_order_body(body, suffix) ==
    LET order == OrderCreate_parse(body)
        order_doc == [_id |-> nextId, customer_email |-> order.customer_email,
                      customer_name |-> order.customer_name, items |-> order.items,
                      shipping_address |-> order.shipping_address, notes |-> order.notes,
                      order_number |-> generate_order_number(now, suffix),
                      total_amount |-> sum_items(order.items),
                      status |-> "pending", created_at |-> now, updated_at |-> now,
                      admin_notes |-> NoneVal]
    IN  [Out(NoException, {"orders.insert_one", "orders.find_one"}, {order_doc})
            EXCEPT !.orders = orders \cup {order_doc}, !.nextId = nextId + 1]

create_order ==
    /\ Idle
    /\ nextId <= MaxDocs
    /\ \E body \in OrderRequestBodies, suffix \in OrderSuffixes :
         Public("create_order", create_order_body(body, suffix))
    /\ UNCHANGED <<env, inflight, lifespan, mongodb, now, tokens>>

get_all_orders ==
    /\ Idle
    /\ \E token \in Presentable :
         AdminGated("get_all_orders", token, Out(NoException, {"orders.find"}, orders))
    /\ UNCHANGED <<env, inflight, lifespan, mongodb, now, tokens>>

get_my_orders ==
    /\ Idle
    /\ \E token \in Presentable :
         LET current_user == Depends_get_current_user(token, mongodb, users, env, now)
         IN  UserGated("get_my_orders", token, current_user,
                       Out(NoException, {"orders.find"},
                           {o \in orders : o.customer_email = current_user.principal.email}))
    /\ UNCHANGED <<env, inflight, lifespan, mongodb, now, tokens>>

get_order_body(order_id) ==
    IF ~ObjectId_is_valid(order_id) THEN Out(bad_request("Invalid order ID"), {}, {})
    ELSE IF find_by_id(orders, order_id) = {}
    THEN Out(not_found("Order not found"), {"orders.find_one"}, {})
    ELSE Out(NoException, {"orders.find_one"}, find_by_id(orders, order_id))

get_order ==
    /\ Idle
    /\ \E token \in Presentable, order_id \in IdInputs :
         AdminGated("get_order", token, get_order_body(order_id))
    /\ UNCHANGED <<env, inflight, lifespan, mongodb, now, tokens>>

update_order_body(order_id, order_update) ==
    IF ~ObjectId_is_valid(order_id) THEN Out(bad_request("Invalid order ID"), {}, {})
    ELSE IF find_by_id(orders, order_id) = {}
    THEN Out(not_found("Order not found"), {"orders.find_one"}, {})
    ELSE LET update_data == dict_update(update_fields(order_update), "updated_at", now)
             after == {IF d._id = order_id THEN mongo_set(d, update_data) ELSE d :
                          d \in orders}
         IN  [Out(NoException, {"orders.find_one", "orders.update_one"},
                  find_by_id(after, order_id))
                 EXCEPT !.orders = after]

update_order ==
    /\ Idle
    /\ \E token \in Presentable, order_id \in IdInputs, order_update \in OrderUpdates :
         AdminGated("update_order", token, update_order_body(order_id, order_update))
    /\ UNCHANGED <<env, inflight, lifespan, mongodb, now, tokens>>

delete_order_body(order_id) ==
    IF ~ObjectId_is_valid(order_id) THEN Out(bad_request("Invalid order ID"), {}, {})
    ELSE IF find_by_id(orders, order_id) = {}
    THEN Out(not_found("Order not found"), {"orders.delete_one"}, {})
    ELSE [Out(NoException, {"orders.delete_one"}, {})
             EXCEPT !.orders = {d \in orders : d._id # order_id}]

delete_order ==
    /\ Idle
    /\ \E token \in Presentable, order_id \in IdInputs :
         AdminGated("delete_order", token, delete_order_body(order_id))
    /\ UNCHANGED <<env, inflight, lifespan, mongodb, now, tokens>>

get_order_stats ==
    /\ Idle
    /\ \E token \in Presentable :
         AdminGated("get_order_stats", token,
                    Out(NoException, {"orders.count_documents", "orders.aggregate"}, {}))
    /\ UNCHANGED <<env, inflight, lifespan, mongodb, now, tokens>>

update_order_status_body(order_id, new_status) ==
    IF ~ObjectId_is_valid(order_id) THEN Out(bad_request("Invalid order ID"), {}, {})
    ELSE IF find_by_id(orders, order_id) = {}
    THEN Out(not_found("Order not found"), {"orders.update_one"}, {})
    ELSE [Out(NoException, {"orders.update_one"}, {})
             EXCEPT !.orders =
                {IF d._id = order_id
                 THEN mongo_set(d, [status |-> new_status, updated_at |-> now])
                 ELSE d : d \in orders}]

update_order_status ==
    /\ Idle
    /\ \E token \in Presentable, order_id \in IdInputs, new_status \in StatusInputs :
         AdminGated("update_order_status", token,
                    update_order_status_body(order_id, new_status))
    /\ UNCHANGED <<env, inflight, lifespan, mongodb, now, tokens>>

get_orders_by_status ==
    /\ Idle
    /\ \E token \in Presentable, status_type \in StatusInputs \cup {"pending"} :
         AdminGated("get_orders_by_status", token,
                    Out(NoException, {"orders.find"},
                        {o \in orders : o.status = status_type}))
    /\ UNCHANGED <<env, inflight, lifespan, mongodb, now, tokens>>

-----------------------------------------------------------------------------
(* routes/contact.py *)

submit_contact_message_body(contact) ==
    LET contact_doc == [_id |-> nextId, name |-> contact.name, email |-> contact.email,
                        phone |-> contact.phone, subject |-> contact.subject,
                        message |-> contact.message, created_at |-> now,
                        is_read |-> FALSE, admin_notes |-> NoneVal]
    IN  [Out(NoException, {"contact_messages.insert_one"}, {})
            EXCEPT !.contact_messages = contact_messages \cup {contact_doc},
                   !.nextId = nextId + 1]

submit_contact_message ==
    /\ Idle
    /\ nextId <= MaxDocs
    /\ \E contact \in ContactMessages :
         Public("submit_contact_message", submit_contact_message_body(contact))
    /\ UNCHANGED <<env, inflight, lifespan, mongodb, now, tokens>>

get_all_contact_messages ==
    /\ Idle
    /\ \E token \in Presentable :
         AdminGated("get_all_contact_messages", token,
                    Out(NoException, {"contact_messages.find"}, contact_messages))
    /\ UNCHANGED <<env, inflight, lifespan, mongodb, now, tokens>>

get_contact_message_body(message_id) ==
    IF ~ObjectId_is_valid(message_id) THEN Out(bad_request("Invalid message ID"), {}, {})
    ELSE IF find_by_id(contact_messages, message_id) = {}
    THEN Out(not_found("Contact message not found"), {"contact_messages.find_one"}, {})
    ELSE Out(NoException, {"contact_messages.find_one"},
             find_by_id(contact_messages, message_id))

get_contact_message ==
    /\ Idle
    /\ \E token \in Presentable, message_id \in IdInputs :
         AdminGated("get_contact_message", token, get_contact_message_body(message_id))
    /\ UNCHANGED <<env, inflight, lifespan, mongodb, now, tokens>>

update_contact_message_body(message_id, message_update) ==
    IF ~ObjectId_is_valid(message_id) THEN Out(bad_request("Invalid message ID"), {}, {})
    ELSE IF find_by_id(contact_messages, message_id) = {}
    THEN Out(not_found("Contact message not found"), {"contact_messages.find_one"}, {})
    ELSE LET update_data == update_fields(message_update)
             after == IF DOMAIN update_data # {}
                      THEN {IF d._id = message_id THEN mongo_set(d, update_data) ELSE d :
                               d \in contact_messages}
                      ELSE contact_messages
         IN  [Out(NoException,
                  IF DOMAIN update_data # {}
                  THEN {"contact_messages.find_one", "contact_messages.update_one"}
                  ELSE {"contact_messages.find_one"},
                  find_by_id(after, message_id))
                 EXCEPT !.contact_messages = after]

update_contact_message ==
    /\ Idle
    /\ \E token \in Presentable, message_id \in IdInputs,
          message_update \in ContactMessageUpdates :
         AdminGated("update_contact_message", token,
                    update_contact_message_body(message_id, message_update))
    /\ UNCHANGED <<env, inflight, lifespan, mongodb, now, tokens>>

delete_contact_message_body(message_id) ==
    IF ~ObjectId_is_valid(message_id) THEN Out(bad_request("Invalid message ID"), {}, {})
    ELSE IF find_by_id(contact_messages, message_id) = {}
    THEN Out(not_found("Contact message not found"), {"contact_messages.delete_one"}, {})
    ELSE [Out(NoException, {"contact_messages.delete_one"}, {})
             EXCEPT !.contact_messages = {d \in contact_messages : d._id # message_id}]

delete_contact_message ==
    /\ Idle
    /\ \E token \in Presentable, message_id \in IdInputs :
         AdminGated("delete_contact_message", token,
                    delete_contact_message_body(message_id))
    /\ UNCHANGED <<env, inflight, lifespan, mongodb, now, tokens>>

get_contact_stats ==
    /\ Idle
    /\ \E token \in Presentable :
         AdminGated("get_contact_stats", token,
                    Out(NoException, {"contact_messages.count_documents"}, {}))
    /\ UNCHANGED <<env, inflight, lifespan, mongodb, now, tokens>>

mark_message_as_read_body(message_id) ==
    IF ~ObjectId_is_valid(message_id) THEN Out(bad_request("Invalid message ID"), {}, {})
    ELSE IF find_by_id(contact_messages, message_id) = {}
    THEN Out(not_found("Contact message not found"), {"contact_messages.update_one"}, {})
    ELSE [Out(NoException, {"contact_messages.update_one"}, {})
             EXCEPT !.contact_messages =
                {IF d._id = message_id THEN mongo_set(d, [is_read |-> TRUE]) ELSE d :
                    d \in contact_messages}]

mark_message_as_read ==
    /\ Idle
    /\ \E token \in Presentable, message_id \in IdInputs :
         AdminGated("mark_message_as_read", token, mark_message_as_read_body(message_id))
    /\ UNCHANGED <<env, inflight, lifespan, mongodb, now, tokens>>

mark_all_messages_as_read_body ==
    [Out(NoException, {"contact_messages.update_many"}, {})
        EXCEPT !.contact_messages =
           {IF ~d.is_read THEN mongo_set(d, [is_read |-> TRUE]) ELSE d :
               d \in contact_messages}]

mark_all_messages_as_read ==
    /\ Idle
    /\ \E token \in Presentable :
         AdminGated("mark_all_messages_as_read", token, mark_all_messages_as_read_body)
    /\ UNCHANGED <<env, inflight, lifespan, mongodb, now, tokens>>

-----------------------------------------------------------------------------
(* The store routers over a store that already holds users *)

InitStore ==
    /\ env \in Envs
    /\ lifespan = "startup"
    /\ mongodb = [client |-> NoneVal, database |-> NoneVal]
    /\ now = 0
    /\ users \in {<<UserDoc("a@x.com")>>, <<UserDoc("a@x.com"), UserDoc("admin@x.com")>>}
    /\ products = {}
    /\ orders = {}
    /\ contact_messages = {}
    /\ nextId = 1
    /\ tokens = {}
    /\ resp = NoResp
    /\ inflight = <<>>

NextStore ==
    \/ connect_to_mongo
    \/ send_response
    \/ Tick
    \/ read_root
    \/ health_check
    \/ login_user
    \/ admin_login
    \/ create_product
    \/ get_all_products
    \/ get_product
    \/ update_product
    \/ delete_product
    \/ get_categories
    \/ create_order
    \/ get_all_orders
    \/ get_my_orders
    \/ get_order
    \/ update_order
    \/ delete_order
    \/ get_order_stats
    \/ update_order_status
    \/ get_orders_by_status
    \/ submit_contact_message
    \/ get_all_contact_messages
    \/ get_contact_message
    \/ update_contact_message
    \/ delete_contact_message
    \/ get_contact_stats
    \/ mark_message_as_read
    \/ mark_all_messages_as_read

SpecStore == InitStore /\ [][NextStore]_vars

-----------------------------------------------------------------------------
(* update_order and update_contact_message, suspended at their awaits, next
   to the delete handlers *)

\* Response.from_mongo(doc): subscripting None raises TypeError
from_mongo(found) ==
    IF found = {} THEN [raised |-> TRUE, body |-> {}]
    ELSE [raised |-> FALSE, body |-> found]

\* update_order up to "existing_order = await db.orders.find_one(...)" and the
\* check of it: the request ends there, or goes on to its write
update_order_find_one ==
    /\ Idle
    /\ \E token \in Presentable, order_id \in IdInputs, order_update \in OrderUpdates :
         LET current_admin == get_current_admin(token, now)
             db == get_database(mongodb)
             found == find_by_id(orders, order_id)
         IN  IF current_admin.ok /\ db.ok /\ ObjectId_is_valid(order_id) /\ found # {}
             THEN /\ Len(inflight) < MaxInflight
                  /\ inflight' = Append(inflight,
                                        [op |-> "update_order", token |-> token,
                                         principal |-> current_admin.principal,
                                         id |-> order_id, update |-> order_update,
                                         at |-> "update_one"])
                  /\ UNCHANGED <<resp, store>>
             ELSE /\ AdminGated("update_order", token,
                                update_order_body(order_id, order_update))
                  /\ inflight' = inflight
    /\ UNCHANGED <<env, lifespan, mongodb, now, tokens>>

\* "await db.orders.update_one({"_id": ...}, {"$set": update_data})": matches
\* nothing when the document is gone
update_order_update_one ==
    /\ \E k \in 1..Len(inflight) :
         LET r == inflight[k]
             update_data == dict_update(update_fields(r.update), "updated_at", now)
         IN  /\ r.op = "update_order"
             /\ r.at = "update_one"
             /\ orders' = {IF d._id = r.id THEN mongo_set(d, update_data) ELSE d :
                              d \in orders}
             /\ inflight' = [inflight EXCEPT ![k].at = "find_one"]
    /\ UNCHANGED <<env, lifespan, mongodb, now, users, products, contact_messages,
                   nextId, tokens, resp>>

\* "updated_order = await db.orders.find_one(...)" and
\* "return OrderResponse.from_mongo(updated_order)"
update_order_reread ==
    /\ resp = NoResp
    /\ \E k \in 1..Len(inflight) :
         LET r == inflight[k]
             updated_order == from_mongo(find_by_id(orders, r.id))
         IN  /\ r.op = "update_order"
             /\ r.at = "find_one"
             /\ resp' = DocResponse("update_order", r.token,
                                    IF updated_order.raised THEN internal_server_error
                                    ELSE NoException,
                                    r.principal,
                                    {"orders.find_one", "orders.update_one"},
                                    updated_order.body)
             /\ inflight' = RemoveAt(inflight, k)
    /\ UNCHANGED <<env, lifespan, mongodb, now, store, tokens>>

\* update_contact_message up to the check of existing_message
update_contact_message_find_one ==
    /\ Idle
    /\ \E token \in Presentable, message_id \in IdInputs,
          message_update \in ContactMessageUpdates :
         LET current_admin == get_current_admin(token, now)
             db == get_database(mongodb)
             found == find_by_id(contact_messages, message_id)
         IN  IF current_admin.ok /\ db.ok /\ ObjectId_is_valid(message_id) /\ found # {}
             THEN /\ Len(inflight) < MaxInflight
                  /\ inflight' = Append(inflight,
                                        [op |-> "update_contact_message", token |-> token,
                                         principal |-> current_admin.principal,
                                         id |-> message_id, update |-> message_update,
                                         at |-> "update_one"])
                  /\ UNCHANGED <<resp, store>>
             ELSE /\ AdminGated("update_contact_message", token,
                                update_contact_message_body(message_id, message_update))
                  /\ inflight' = inflight
    /\ UNCHANGED <<env, lifespan, mongodb, now, tokens>>

\* "if update_data: await db.contact_messages.update_one(...)"
update_contact_message_update_one ==
    /\ \E k \in 1..Len(inflight) :
         LET r == inflight[k]
             update_data == update_fields(r.update)
         IN  /\ r.op = "update_contact_message"
             /\ r.at = "update_one"
             /\ contact_messages' =
                   IF DOMAIN update_data # {}
                   THEN {IF d._id = r.id THEN mongo_set(d, update_data) ELSE d :
                            d \in contact_messages}
                   ELSE contact_messages
             /\ inflight' = [inflight EXCEPT ![k].at = "find_one"]
    /\ UNCHANGED <<env, lifespan, mongodb, now, users, products, orders,
                   nextId, tokens, resp>>

\* "updated_message = await db.contact_messages.find_one(...)" and
\* "return ContactMessageResponse.from_mongo(updated_message)"
update_contact_message_reread ==
    /\ resp = NoResp
    /\ \E k \in 1..Len(inflight) :
         LET r == inflight[k]
             update_data == update_fields(r.update)
             updated_message == from_mongo(find_by_id(contact_messages, r.id))
         IN  /\ r.op = "update_contact_message"
             /\ r.at = "find_one"
             /\ resp' = DocResponse("update_contact_message", r.token,
                                    IF updated_message.raised THEN internal_server_error
                                    ELSE NoException,
                                    r.principal,
                                    IF DOMAIN update_data # {}
                                    THEN {"contact_messages.find_one",
                                          "contact_messages.update_one"}
                                    ELSE {"contact_messages.find_one"},
                                    updated_message.body)
             /\ inflight' = RemoveAt(inflight, k)
    /\ UNCHANGED <<env, lifespan, mongodb, now, store, tokens>>

InitUpdate ==
    /\ env \in {e \in Envs : e.MONGODB_URL = "ok" /\ e.ADMIN_EMAIL # NoneVal}
    /\ lifespan = "serving"
    /\ mongodb = [client |-> "client", database |-> "sunainscent"]
    /\ now = 0
    /\ users = <<>>
    /\ products = {}
    /\ orders = {}
    /\ contact_messages = {}
    /\ nextId = 1
    /\ tokens = {}
    /\ resp = NoResp
    /\ inflight = <<>>

NextUpdate ==
    \/ send_response
    \/ admin_login
    \/ create_order
    \/ submit_contact_message
    \/ delete_order
    \/ delete_contact_message
    \/ update_order_find_one
    \/ update_order_update_one
    \/ update_order_reread
    \/ update_contact_message_find_one
    \/ update_contact_message_update_one
    \/ update_contact_message_reread

SpecUpdate == InitUpdate /\ [][NextUpdate]_vars

-----------------------------------------------------------------------------
(* The user gate when the store stops answering after start-up *)

\* what the server does with a call on the handle: it answers, or the driver
\* raises (connectivity lost after the handle was set)
StoreOutcomes == {"answers", "raises"}

\* variant: an error of the lookup is reported like a rejected token
get_current_user_store_unauthorized(token, us, e, t, outcome) ==
    IF outcome = "raises" /\ verify_token(token, t).ok
    THEN [ok |-> FALSE, exc |-> credentials_exception, principal |-> NoPrincipal,
          dbops |-> {"users.find_one raises"}]
    ELSE get_current_user(token, us, e, t)

\* get_current_user with the outcome of its find_one: nothing catches what
\* the driver raises, so the exception leaves the handler unhandled
get_current_user_store(token, us, e, t, outcome) ==
    IF outcome = "raises" /\ verify_token(token, t).ok
    THEN [ok |-> FALSE, exc |-> internal_server_error, principal |-> NoPrincipal,
          dbops |-> {"users.find_one raises"}]
    ELSE get_current_user(token, us, e, t)

UserGatedReads == {"get_current_user_profile", "verify_token_route"}

\* a request to a handler behind Depends(get_current_user), the store
\* answering or not
user_gated_request ==
    /\ Idle
    /\ \E op \in UserGatedReads, token \in Presentable, outcome \in StoreOutcomes :
         LET db == get_database(mongodb)
             current_user == get_current_user_store(token, users, env, now, outcome)
         IN  IF ~db.ok
             THEN resp' = Response(op, token, db.exc, NoPrincipal, {}, NoToken)
             ELSE resp' = Response(op, token, current_user.exc, current_user.principal,
                                   current_user.dbops, NoToken)
    /\ UNCHANGED <<env, inflight, lifespan, mongodb, now, store, tokens>>

NextOutage ==
    \/ connect_to_mongo
    \/ send_response
    \/ Tick
    \/ login_user
    \/ user_gated_request

SpecOutage == InitStore /\ [][NextOutage]_vars

-----------------------------------------------------------------------------
(* utils/auth.py: the password functions called directly *)

\* passwords the request models admit: six bytes or more, no upper limit
PasswordInputs ==
    Passwords \cup {Pw(1, bcrypt_truncate_size),
                    Pw(1, bcrypt_truncate_size) \o <<1>>,
                    Pw(1, bcrypt_truncate_size) \o <<2>>}

HashInputs ==
    {get_password_hash(p, s) : p \in PasswordInputs, s \in Salts} \cup {MalformedHash}

\* a user record whose hashed_password is no bcrypt hash
MalformedUserDoc(email) == [UserDoc(email) EXCEPT !.hashed_password = MalformedHash]

HasherStoreContents ==
    StoreContents \cup {<<MalformedUserDoc(e)>> : e \in Emails}
                  \cup {<<MalformedUserDoc(p[1]), MalformedUserDoc(p[2])>> :
                           p \in {q \in Emails \X Emails : q[1] # q[2]}}

InitHasher ==
    /\ env \in Envs
    /\ Idle
    /\ mongodb = IF env.MONGODB_URL = "ok"
                 THEN [client |-> "client", database |-> "sunainscent"]
                 ELSE IF env.MONGODB_URL = "unreachable"
                 THEN [client |-> "client", database |-> NoneVal]
                 ELSE [client |-> NoneVal, database |-> NoneVal]
    /\ now = 0
    /\ users \in HasherStoreContents
    /\ products = {}
    /\ orders = {}
    /\ contact_messages = {}
    /\ nextId = 1
    /\ tokens = {}
    /\ resp = NoResp
    /\ inflight = <<>>

call_get_password_hash ==
    /\ Idle
    /\ \E password \in PasswordInputs, salt \in Salts :
         resp' = DocResponse("get_password_hash", NoToken, NoException, NoPrincipal, {},
                             {[password |-> password,
                               hashed |-> get_password_hash(password, salt)]})
    /\ UNCHANGED <<env, inflight, lifespan, mongodb, now, store, tokens>>

call_verify_password ==
    /\ Idle
    /\ \E plain_password \in PasswordInputs, hashed_password \in HashInputs :
         LET r == verify_password(plain_password, hashed_password)
         IN  resp' = DocResponse("verify_password", NoToken,
                                 IF r.raised THEN internal_server_error ELSE NoException,
                                 NoPrincipal, {},
                                 {[plain |-> plain_password, hashed |-> hashed_password,
                                   raised |-> r.raised, ok |-> r.ok]})
    /\ UNCHANGED <<env, inflight, lifespan, mongodb, now, store, tokens>>

NextHasher ==
    \/ send_response
    \/ call_get_password_hash
    \/ call_verify_password
    \/ login_user

SpecHasher == InitHasher /\ [][NextHasher]_vars

-----------------------------------------------------------------------------
(* Properties *)

SignedByServer(tk) == tk.wf /\ tk.sig = Sign(tk.claims, jwt_secret_key)

Expired(tk) == dict_has(tk.claims, "exp") /\ tk.claims["exp"] < now

HasSubject(tk) == dict_has(tk.claims, "sub")

ValidToken(tk) == SignedByServer(tk) /\ ~Expired(tk) /\ HasSubject(tk)

IssuedBy(tk, by) == \E i \in tokens : i.token = tk /\ i.by = by

\* C1: get_current_user, called with a token that is malformed, not signed by
\* the server, expired or without a subject claim, fails with 401 Unauthorized
\* and resolves no principal, whatever the user store holds.
C1_InvalidTokenUnauthorized ==
    (resp.op = "get_current_user" /\ ~ValidToken(resp.token))
        => /\ resp.status_code = HTTP_401
           /\ resp.principal = NoPrincipal

\* an expired token of a registered user was presented and refused
C1_Witness ==
    /\ resp.op = "get_current_user"
    /\ SignedByServer(resp.token) /\ HasSubject(resp.token) /\ Expired(resp.token)
    /\ users_has(users, resp.token.claims["sub"])
    /\ resp.status_code = HTTP_401

\* C2: get_current_user, called with a validly signed, unexpired token whose
\* subject has no user record, fails with 401 Unauthorized ("User not found")
\* and with no other status.
C2_UnknownSubjectUnauthorized ==
    (/\ resp.op = "get_current_user"
     /\ ValidToken(resp.token)
     /\ ~users_has(users, resp.token.claims["sub"]))
        => /\ resp.status_code = HTTP_401
           /\ resp.detail = "User not found"
           /\ resp.principal = NoPrincipal

\* a valid token for an unregistered subject was presented to a non-empty store
C2_Witness ==
    /\ resp.op = "get_current_user"
    /\ ValidToken(resp.token)
    /\ ~users_has(users, resp.token.claims["sub"])
    /\ Len(users) > 0
    /\ resp.status_code = HTTP_401

\* C5: get_current_admin on an unexpired token issued by create_admin_token
\* succeeds with {email: subject, is_admin: true} taken from the claims and
\* makes no store call: the result is the same for every store content and
\* with the database handle unset.
C5_AdminFromClaimsOnly ==
    (/\ resp.op = "get_current_admin"
     /\ IssuedBy(resp.token, "create_admin_token")
     /\ ~Expired(resp.token))
        => /\ resp.status_code = HTTP_200
           /\ resp.principal = [kind |-> "admin", email |-> resp.token.claims["sub"],
                                is_admin |-> TRUE]
           /\ resp.dbops = {}

\* an admin token resolved with an empty store and no database handle
C5_Witness ==
    /\ resp.op = "get_current_admin"
    /\ IssuedBy(resp.token, "create_admin_token")
    /\ ~Expired(resp.token)
    /\ users = <<>>
    /\ mongodb.database = NoneVal
    /\ resp.status_code = HTTP_200

\* C6: every principal get_current_user returns is the stored user of the
\* token's subject, with is_admin true exactly when the stored email equals
\* ADMIN_EMAIL as configured at the call; with ADMIN_EMAIL unset no principal
\* is an admin.  An is_admin claim in the token has no influence.
C6_IsAdminByConfiguredEmail ==
    (resp.op = "get_current_user" /\ resp.principal.kind = "user")
        => /\ resp.principal.email = users_find_one(users, resp.token.claims["sub"]).email
           /\ resp.principal.is_admin = (resp.principal.email = env.ADMIN_EMAIL)
           /\ (env.ADMIN_EMAIL = NoneVal => ~resp.principal.is_admin)

\* a token claiming is_admin resolved to a principal that is no admin
C6_Witness ==
    /\ resp.op = "get_current_user"
    /\ resp.principal.kind = "user"
    /\ dict_get(resp.token.claims, "is_admin", FALSE)
    /\ ~resp.principal.is_admin

TtlOf(i) == IF i.expires_delta = <<>> THEN jwt_expiration_time ELSE i.expires_delta[1]

BeforeTtl(i) == now < i.issued_at + TtlOf(i)

\* C10: a token issued by create_access_token for claims with a subject, and
\* verified before its ttl has elapsed, yields the original subject and no
\* error from verify_token; one issued by create_admin_token yields the
\* original subject with is_admin true from verify_admin_token.
C10_IssueVerifyRoundTrip ==
    \A i \in tokens :
        (resp.token = i.token /\ dict_has(i.data, "sub") /\ BeforeTtl(i))
            => /\ resp.op = "verify_token"
                    => /\ resp.status_code = HTTP_200
                       /\ resp.principal.email = i.data["sub"]
               /\ (resp.op = "get_current_admin" /\ i.by = "create_admin_token")
                    => /\ resp.status_code = HTTP_200
                       /\ resp.principal.email = i.data["sub"]
                       /\ resp.principal.is_admin

\* a token issued with an explicit ttl verified at a later time within the ttl
C10_Witness ==
    \E i \in tokens :
        /\ resp.op = "verify_token"
        /\ resp.token = i.token
        /\ i.expires_delta # <<>>
        /\ i.issued_at < now
        /\ BeforeTtl(i)
        /\ resp.status_code = HTTP_200
        /\ resp.principal.email = i.data["sub"]

\* handlers gated by Depends(get_current_user)
UserGateOps == {"get_current_user_profile", "verify_token_route"} \cup AdminRouterOps

\* the user gate resolved a principal for the request
AcceptedByUserGate == resp.principal.kind = "user"

\* C3 as claimed: a token issued by create_admin_token is never accepted by
\* get_current_user, also when a user with the same email is registered.
C3_AdminTokenNeverResolvesUser ==
    (resp.op \in UserGateOps /\ IssuedBy(resp.token, "create_admin_token"))
        => ~AcceptedByUserGate

\* C3 amended: with the store available, a token issued by create_admin_token
\* is accepted by get_current_user exactly when it is unexpired and a user
\* with the token's subject is registered (the is_admin claim is ignored);
\* otherwise the request fails with 401.
C3_AdminTokenResolvesRegisteredUser ==
    (/\ resp.op \in UserGateOps
     /\ IssuedBy(resp.token, "create_admin_token")
     /\ mongodb.database # NoneVal)
        => /\ AcceptedByUserGate
                <=> (~Expired(resp.token) /\ users_has(users, resp.token.claims["sub"]))
           /\ ~AcceptedByUserGate => resp.status_code = HTTP_401

\* an admin token was accepted by the user gate of a registered admin email
C3_Witness ==
    /\ resp.op \in UserGateOps
    /\ IssuedBy(resp.token, "create_admin_token")
    /\ AcceptedByUserGate
    /\ resp.principal.email = resp.token.claims["sub"]

\* C7: an admin-router handler called with an unexpired login token fails with
\* 403 Forbidden before any statistics query when the user's email is not
\* ADMIN_EMAIL, and passes the check when it is.
C7_AdminRouterGate ==
    (/\ resp.op \in AdminRouterOps
     /\ IssuedBy(resp.token, "login_user")
     /\ ~Expired(resp.token))
        => IF resp.token.claims["sub"] # env.ADMIN_EMAIL
           THEN /\ resp.status_code = HTTP_403
                /\ resp.dbops \cap StatsQueries = {}
           ELSE /\ resp.status_code = HTTP_200
                /\ resp.principal.is_admin

\* the dashboard refused the login token of a user who is not the admin
C7_Witness ==
    /\ resp.op = "get_dashboard_stats"
    /\ IssuedBy(resp.token, "login_user")
    /\ ~Expired(resp.token)
    /\ env.ADMIN_EMAIL # NoneVal
    /\ resp.token.claims["sub"] # env.ADMIN_EMAIL
    /\ resp.status_code = HTTP_403

\* handlers gated by Depends(get_current_admin)
OrderAdminOps ==
    {"get_all_orders", "get_order", "update_order", "delete_order", "get_order_stats",
     "update_order_status", "get_orders_by_status"}

ContactAdminOps ==
    {"get_all_contact_messages", "get_contact_message", "update_contact_message",
     "delete_contact_message", "get_contact_stats", "mark_message_as_read",
     "mark_all_messages_as_read"}

AdminTokenOps == OrderAdminOps \cup ContactAdminOps

ValidAdminToken(tk) == ValidToken(tk) /\ dict_get(tk.claims, "is_admin", FALSE)

\* C4 as claimed: get_current_admin applied to a token issued by login_user
\* fails, and reports 403 Forbidden.
C4_LoginTokenForbidden ==
    (resp.op \in AdminTokenOps /\ IssuedBy(resp.token, "login_user"))
        => resp.status_code = HTTP_403

\* C4 amended: get_current_admin applied to a token issued by login_user
\* (subject only, no is_admin claim) fails, resolves no principal and reports
\* 401 Unauthorized, "Admin access required".
C4_LoginTokenUnauthorized ==
    (resp.op \in AdminTokenOps /\ IssuedBy(resp.token, "login_user"))
        => /\ resp.status_code = HTTP_401
           /\ resp.detail = "Admin access required"
           /\ resp.principal = NoPrincipal

\* an unexpired login token of a registered user was refused by the admin gate
C4_Witness ==
    /\ resp.op \in AdminTokenOps
    /\ IssuedBy(resp.token, "login_user")
    /\ ~Expired(resp.token)
    /\ ~dict_has(resp.token.claims, "is_admin")
    /\ users_has(users, resp.token.claims["sub"])
    /\ resp.status_code = HTTP_401

\* C8: every order-administration and contact-administration handler runs
\* (reaches the store) only when the presented token is a valid admin token
\* with is_admin true; every other token, the login token of the user whose
\* email is ADMIN_EMAIL included, is rejected with 401 Unauthorized.
C8_AdminTokenGate ==
    resp.op \in AdminTokenOps
        => /\ (resp.dbops # {} \/ resp.status_code = HTTP_200)
                => ValidAdminToken(resp.token)
           /\ ~ValidAdminToken(resp.token)
                => /\ resp.status_code = HTTP_401
                   /\ resp.dbops = {}
                   /\ resp.body = {}

\* the unexpired login token of the configured admin's user account was
\* refused with 401 by an order-administration handler while an order exists
C8_Witness ==
    /\ resp.op = "delete_order"
    /\ IssuedBy(resp.token, "login_user")
    /\ ~Expired(resp.token)
    /\ resp.token.claims["sub"] = env.ADMIN_EMAIL
    /\ users_has(users, env.ADMIN_EMAIL)
    /\ mongodb.database # NoneVal
    /\ orders # {}
    /\ resp.status_code = HTTP_401

ProductMutatingOps == {"create_product", "update_product", "delete_product"}

GatedMutatingOps ==
    ProductMutatingOps \cup
    {"update_order", "delete_order", "update_order_status", "update_contact_message",
     "delete_contact_message", "mark_message_as_read", "mark_all_messages_as_read"}

\* the gate of the handler refuses the token: the user gate (reached once the
\* database handle is resolved) or the admin-token gate
GateRejects(op, tk) ==
    IF op \in ProductMutatingOps
    THEN /\ mongodb.database # NoneVal
         /\ ~(ValidToken(tk) /\ users_has(users, tk.claims["sub"]))
    ELSE ~ValidAdminToken(tk)

\* C9: a gated mutating handler (product create/update/delete, order
\* update/delete/update-status, contact update/delete/mark-read/mark-all-read)
\* whose gate fails answers with a 401 authorization failure carrying a
\* detail message, and leaves products, orders, contact_messages and users
\* exactly as they were before the request; no handler whose gate resolved no
\* principal changes a collection.
C9_GateFailureNoEffect ==
    [][(resp = NoResp /\ resp'.op \in GatedMutatingOps)
        => /\ GateRejects(resp'.op, resp'.token)
                => /\ resp'.status_code = HTTP_401
                   /\ resp'.detail \in {"Could not validate credentials", "User not found",
                                        "Admin access required"}
                   /\ resp'.principal = NoPrincipal
                   /\ UNCHANGED <<products, orders, contact_messages, users>>
           /\ resp'.principal = NoPrincipal
                => UNCHANGED <<products, orders, contact_messages, users>>]_vars

\* a gated mutating handler refused its token with 401 while the document it
\* would have changed is in the store
C9_Witness ==
    /\ resp.op \in GatedMutatingOps
    /\ resp.status_code = HTTP_401
    /\ resp.principal = NoPrincipal
    /\ mongodb.database # NoneVal
    /\ \/ resp.op \in ProductMutatingOps /\ products # {}
       \/ resp.op \in {"update_order", "delete_order", "update_order_status"} /\ orders # {}
       \/ resp.op \in ContactAdminOps /\ contact_messages # {}

\* the expiry the token is issued for: issue time + ttl, or issue time + the
\* configured default when no ttl is given
ExpiryOf(i) == i.issued_at + TtlOf(i)

\* operations that verify a token and nothing else
VerifyOps == {"verify_token", "get_current_admin"}

\* C11 as claimed: once the clock is past a token's expiry (issue time + ttl,
\* or issue time + 1440 minutes when no ttl is given), verify_token and
\* verify_admin_token fail for that token.
C11_RejectedPastExpiry ==
    \A i \in tokens :
        (now > ExpiryOf(i) /\ resp.token = i.token /\ resp.op \in VerifyOps)
            => resp.status_code = HTTP_401

\* C11, what holds: a token is rejected by verify_token and verify_admin_token
\* in every state where the clock is past its exp claim, which is issue time +
\* ttl for a non-zero ttl and issue time + 1440 minutes otherwise; issued
\* tokens are never changed and the clock never goes back, so no operation
\* extends or renews a token.
C11_RejectedPastExpClaim ==
    /\ [](\A i \in tokens :
            /\ i.token.claims["exp"] =
                  IF i.expires_delta \in {<<>>, <<0>>}
                  THEN i.issued_at + jwt_expiration_time
                  ELSE ExpiryOf(i)
            /\ (now > i.token.claims["exp"] /\ resp.token = i.token
                    /\ resp.op \in VerifyOps)
                  => resp.status_code = HTTP_401)
    /\ [][tokens \subseteq tokens' /\ now' >= now]_vars

\* a token issued with an explicit ttl was refused after its expiry
C11_Witness ==
    \E i \in tokens :
        /\ i.expires_delta = <<jwt_expiration_time>>
        /\ now > ExpiryOf(i)
        /\ HasSubject(i.token)
        /\ resp.token = i.token
        /\ resp.op = "verify_token"
        /\ resp.status_code = HTTP_401

\* C12 as claimed: a token issued by create_access_token with ttl = 0 fails
\* verify_token at every later time.
C12_ZeroTtlRejected ==
    \A i \in tokens :
        (/\ i.by = "create_access_token"
         /\ i.expires_delta = <<0>>
         /\ now > i.issued_at
         /\ resp.token = i.token
         /\ resp.op = "verify_token")
            => resp.status_code = HTTP_401

\* a token issued with ttl = 0 was accepted by verify_token at a later time
C12_Witness ==
    \E i \in tokens :
        /\ i.by = "create_access_token"
        /\ i.expires_delta = <<0>>
        /\ now > i.issued_at
        /\ resp.token = i.token
        /\ resp.op = "verify_token"
        /\ resp.status_code = HTTP_200
        /\ resp.principal.email = i.data["sub"]

\* the password does not match the hash stored for the email
WrongPassword(email, password) ==
    /\ users_has(users, email)
    /\ ~verify_password(password, users_find_one(users, email).hashed_password).raised
    /\ ~verify_password(password, users_find_one(users, email).hashed_password).ok

\* C13: a login attempt with an email that has no user record and a login
\* attempt with a registered email and a wrong password fail with the same
\* status, message and headers, and neither issues a token; every failed
\* login served by the store is answered with that one outcome.
C13_LoginFailuresIndistinguishable ==
    /\ \A e1 \in Emails, e2 \in Emails, p1 \in Passwords, p2 \in Passwords :
          (~users_has(users, e1) /\ WrongPassword(e2, p2))
             => /\ login_user_body(e1, p1, users, now).exc
                      = login_user_body(e2, p2, users, now).exc
                /\ login_user_body(e1, p1, users, now).exc.status_code = HTTP_401
                /\ login_user_body(e1, p1, users, now).issued = NoToken
                /\ login_user_body(e2, p2, users, now).issued = NoToken
    /\ (resp.op = "login_user" /\ resp.status_code \notin {HTTP_200, HTTP_503})
          => /\ resp.status_code = incorrect_credentials.status_code
             /\ resp.detail = incorrect_credentials.detail
             /\ resp.headers = incorrect_credentials.headers
             /\ resp.issued = NoToken

\* a login failed while one email is registered and another is not
C13_Witness ==
    /\ resp.op = "login_user"
    /\ resp.status_code = HTTP_401
    /\ \E e1 \in Emails, e2 \in Emails, p2 \in Passwords :
          ~users_has(users, e1) /\ WrongPassword(e2, p2)

\* C14 as claimed: get_current_user reports the same outcome (status and
\* message) for a valid token whose subject has no user record as for an
\* invalid token, so the outcome does not tell whether a user record exists.
C14_UnknownUserLikeBadToken ==
    \A bad \in Presentable, good \in Presentable :
        (/\ ~ValidToken(bad)
         /\ ValidToken(good)
         /\ ~users_has(users, good.claims["sub"]))
            => /\ get_current_user(bad, users, env, now).exc.status_code
                     = get_current_user(good, users, env, now).exc.status_code
               /\ get_current_user(bad, users, env, now).exc.detail
                     = get_current_user(good, users, env, now).exc.detail

\* get_current_user answered "User not found" to a valid token
C14_Witness ==
    /\ resp.op = "get_current_user"
    /\ ValidToken(resp.token)
    /\ ~users_has(users, resp.token.claims["sub"])
    /\ resp.status_code = HTTP_401
    /\ resp.detail = "User not found"
    /\ resp.detail # get_current_user(Garbage, users, env, now).exc.detail

\* C15 as claimed: after any interleaving of register requests the users
\* collection holds at most one record per email.
C15_UniqueEmails ==
    \A j \in 1..Len(users), k \in 1..Len(users) :
        users[j].email = users[k].email => j = k

\* two registrations of one email both passed the check and both inserted
C15_Witness ==
    /\ Len(users) = 2
    /\ users[1].email = users[2].email
    /\ resp.op = "register_user"
    /\ resp.status_code = HTTP_200

\* the fields of a user document, next to its _id
UserFields == {"email", "hashed_password", "first_name", "phone", "created_at"}

\* C16: every user record holds only email, hashed_password, first_name,
\* phone and created_at (plus its id); hashed_password is a bcrypt hash and
\* never a plaintext password given to the service, no is_admin field is
\* written, and a login writes nothing to the user store.
C16_UserRecordFields ==
    /\ [](\A k \in 1..Len(users) :
            /\ DOMAIN users[k] = UserFields
            /\ users[k].hashed_password.scheme = "bcrypt"
            /\ \A p \in Passwords : users[k].hashed_password.digest # p)
    /\ [][resp'.op = "login_user" => users' = users]_vars

\* a registered user logged in with the registered password
C16_Witness ==
    /\ resp.op = "login_user"
    /\ resp.status_code = HTTP_200
    /\ \E k \in 1..Len(users) :
          /\ users[k].email = resp.issued.claims["sub"]
          /\ "is_admin" \notin DOMAIN users[k]

\* the request met a store failure: no database handle, or the lookup raised
StoreFailed == mongodb.database = NoneVal \/ "users.find_one raises" \in resp.dbops

AuthFailureDetails ==
    {"Could not validate credentials", "User not found", "Admin access required",
     "Incorrect email or password"}

\* C17: a user-gated request that meets a store failure is answered with a
\* server-side failure outside the auth taxonomy and never with 401: 503
\* "Database connection not available" while the handle is unset, whatever
\* the token, and the unhandled error (500) when the user lookup raises.
C17_StoreFailureNotUnauthorized ==
    (resp.op \in UserGatedReads /\ StoreFailed)
        => /\ resp.status_code \in {HTTP_503, HTTP_500}
           /\ resp.status_code # HTTP_401
           /\ resp.detail \notin AuthFailureDetails
           /\ resp.principal = NoPrincipal
           /\ mongodb.database = NoneVal => resp.status_code = HTTP_503

\* with no database handle a request with an invalid token was answered 503
C17_Witness ==
    /\ resp.op \in UserGatedReads
    /\ mongodb.database = NoneVal
    /\ ~ValidToken(resp.token)
    /\ resp.status_code = HTTP_503

\* handlers that depend on get_database
StoreBackedOps ==
    {"register_user", "login_user", "create_order", "get_my_orders",
     "submit_contact_message", "get_all_products", "get_product", "get_categories"}
        \cup UserGateOps \cup ProductMutatingOps \cup AdminTokenOps

NoStoreOps == {"read_root", "health_check"}

\* the database handle is set only by a start-up whose ping succeeded
HandleOnlyAfterPing ==
    /\ mongodb.database # NoneVal => (lifespan = "serving" /\ env.MONGODB_URL = "ok")
    /\ (lifespan = "serving" /\ env.MONGODB_URL # "ok") => mongodb.database = NoneVal

C19_VerifyIffSamePassword ==
    resp.op = "verify_password"
       => \A r \in resp.body : \A p2 \in PasswordInputs, s \in Salts :
             r.hashed = get_password_hash(p2, s)
                => (~r.raised /\ r.ok = (r.plain = p2))

\* two different passwords that agree on their first 72 bytes: one verifies
\* against the hash of the other
C19_Witness ==
    /\ resp.op = "verify_password"
    /\ \E r \in resp.body : \E p2 \in PasswordInputs, s \in Salts :
          /\ r.hashed = get_password_hash(p2, s)
          /\ r.plain # p2
          /\ r.ok

\* every registered email has a record whose stored hash is malformed
AllHashesMalformed ==
    \A e \in Emails :
       \E k \in 1..Len(users) :
          users[k].email = e /\ users[k].hashed_password = MalformedHash

\* C20 as claimed: verify_password on a malformed hash returns false and does
\* not raise, and a login against such a record ends as 401 Incorrect email
\* or password with no token.
C20_MalformedHashIsFalse ==
    /\ resp.op = "verify_password"
          => \A r \in resp.body :
                r.hashed = MalformedHash => (~r.raised /\ ~r.ok)
    /\ (resp.op = "login_user" /\ mongodb.database # NoneVal /\ AllHashesMalformed)
          => /\ resp.status_code = incorrect_credentials.status_code
             /\ resp.detail = incorrect_credentials.detail
             /\ resp.issued = NoToken

\* a login against a record with a malformed hash ended as an unhandled
\* error
C20_Witness ==
    /\ resp.op = "login_user"
    /\ mongodb.database # NoneVal
    /\ AllHashesMalformed
    /\ resp.status_code = HTTP_500
    /\ resp.issued = NoToken

\* the given password verifies against the stored hash of the record found
\* for the given email
PasswordVerifies(email, password) ==
    /\ users_has(users, email)
    /\ verify_password(password, users_find_one(users, email).hashed_password).ok

\* C21: login issues a token if and only if a user record with the given
\* email exists and the given password verifies against its stored hash; the
\* token's claims are the subject and the expiry only, the subject is the
\* stored email, and there is no is_admin claim, also for the configured
\* admin email.
C21_LoginIssuesIffVerified ==
    /\ \A e \in Emails, p \in Passwords :
          LET out == login_user_body(e, p, users, now)
          IN  /\ out.issued # NoToken <=> PasswordVerifies(e, p)
              /\ out.issued # NoToken
                    => /\ SignedByServer(out.issued)
                       /\ DOMAIN out.issued.claims = {"sub", "exp"}
                       /\ out.issued.claims["sub"] = users_find_one(users, e).email
    /\ resp.op = "login_user"
          => /\ resp.issued # NoToken <=> resp.status_code = HTTP_200
             /\ resp.issued # NoToken
                   => /\ mongodb.database # NoneVal
                      /\ DOMAIN resp.issued.claims = {"sub", "exp"}
                      /\ \E e \in Emails, p \in Passwords :
                            /\ PasswordVerifies(e, p)
                            /\ resp.issued.claims["sub"] = users_find_one(users, e).email
    /\ \A i \in tokens :
          i.by = "login_user" => ~dict_has(i.token.claims, "is_admin")

\* a login with the configured admin email succeeded while another password
\* for the same record does not verify
C21_Witness ==
    /\ resp.op = "login_user"
    /\ resp.issued # NoToken
    /\ env.ADMIN_EMAIL # NoneVal
    /\ resp.issued.claims["sub"] = env.ADMIN_EMAIL
    /\ \E p \in Passwords : ~PasswordVerifies(env.ADMIN_EMAIL, p)

\* C22: register with an email that already has a user record fails with 400
\* "Email already registered" and leaves the users collection unchanged, so
\* the password that verified before still does and the new one does not
\* start to.
C22_DuplicateRegisterNoEffect ==
    /\ [](/\ \A e \in Emails, p \in Passwords, f \in Names, ph \in Phones, s \in Salts :
                users_has(users, e)
                   => LET out == register_user_body(e, p, f, ph, s, users, now)
                      IN  /\ out.exc.status_code = HTTP_400
                          /\ out.exc.detail = "Email already registered"
                          /\ out.users = users
                          /\ \A p0 \in Passwords :
                                login_user_body(e, p0, out.users, now)
                                   = login_user_body(e, p0, users, now)
          /\ (resp.op = "register_user" /\ resp.status_code = HTTP_400)
                => resp.detail = "Email already registered")
    /\ [][(resp'.op = "register_user" /\ resp'.status_code # HTTP_200)
             => users' = users]_vars

\* a register request was refused for an email whose record a second
\* password does not open
C22_Witness ==
    /\ resp.op = "register_user"
    /\ resp.status_code = HTTP_400
    /\ \E e \in Emails, p \in Passwords :
          users_has(users, e) /\ ~PasswordVerifies(e, p)

\* C23: only register_user writes to the users collection, and it only
\* appends a record; so a token that get_current_user resolves keeps being
\* resolved, to the same email, by every later call made before the token's
\* expiry, whatever was done in between.
C23_UsersOnlyInserted ==
    /\ [][users' # users
             => /\ resp'.op = "register_user"
                /\ Len(users') = Len(users) + 1
                /\ SubSeq(users', 1, Len(users)) = users]_vars
    /\ [][\A tk \in Presentable :
             LET before == get_current_user(tk, users, env, now)
                 after == get_current_user(tk, users', env', now')
             IN  (before.ok /\ tk.claims["exp"] >= now')
                    => /\ after.ok
                       /\ after.principal.email = before.principal.email]_vars

\* a token issued before a later registration is resolved after it
C23_Witness ==
    /\ resp.op = "get_current_user_profile"
    /\ resp.status_code = HTTP_200
    /\ Len(users) = 2
    /\ resp.principal.email = users[1].email
    /\ \E i \in tokens :
          /\ i.token = resp.token
          /\ i.issued_at < users[2].created_at
          /\ users[2].created_at < now

UpdateOps == {"update_order", "update_contact_message"}

\* C25 as claimed: update_order and update_contact_message never end as a
\* crash, whatever a concurrent delete of the same document does between the
\* existence check, the write and the final re-read: a request that passed
\* the gate with a well-formed id ends with the updated document or with 404.
C25_UpdateNeverCrashes ==
    resp.op \in UpdateOps
       => /\ resp.status_code \in {HTTP_200, HTTP_400, HTTP_401, HTTP_404, HTTP_503}
          /\ resp.status_code = HTTP_200 => Cardinality(resp.body) = 1

\* an update found its document, the document was deleted before the re-read,
\* and the request ended as an unhandled error
C25_Witness ==
    /\ resp.op \in UpdateOps
    /\ resp.status_code = HTTP_500
    /\ resp.body = {}
    /\ orders = {}
    /\ contact_messages = {}

\* C26: an order starts with status pending, no admin notes and total_amount
\* equal to the sum of price times quantity over its items, whatever the
\* request body holds; its status is always one of the six OrderStatus
\* values; and no later operation changes its total_amount, items,
\* order_number or created_at.
C26_OrderFieldsFixed ==
    /\ [](\A o \in orders :
             /\ o.status \in OrderStatus
             /\ o.total_amount = sum_items(o.items))
    /\ [][\A o \in orders' :
             IF \E old \in orders : old._id = o._id
             THEN \A old \in orders :
                     old._id = o._id
                        => /\ o.total_amount = old.total_amount
                           /\ o.items = old.items
                           /\ o.order_number = old.order_number
                           /\ o.created_at = old.created_at
             ELSE /\ resp'.op = "create_order"
                  /\ o.status = "pending"
                  /\ o.admin_notes = NoneVal
                  /\ o.total_amount = sum_items(o.items)]_vars

\* an order of two items was updated after the day it was created
C26_Witness ==
    /\ resp.op \in {"update_order", "update_order_status"}
    /\ resp.status_code = HTTP_200
    /\ \E o \in orders :
          /\ Len(o.items) = 2
          /\ o.total_amount = 75
          /\ o.status = "cancelled"
          /\ o.updated_at > o.created_at

\* the product with this id is in the store and inactive
Inactive(product_id) == \E d \in products : d._id = product_id /\ ~d.is_active

\* C27: delete_product is a soft delete.  After it succeeds the record is
\* still there with is_active false; get_product on an inactive product
\* answers 404, and get_all_products and get_categories return active products
\* only; an inactive product becomes active again only through update_product;
\* no operation removes a product record; and delete_product on an inactive
\* product succeeds again and leaves it inactive.
C27_SoftDelete ==
    /\ [](/\ \A id \in IdInputs :
                Inactive(id)
                   => /\ get_product_body(id).exc = not_found("Product not found")
                      /\ delete_product_body(id).exc = NoException
                      /\ \A d \in delete_product_body(id).products :
                            d._id = id => ~d.is_active
                      /\ \E d \in delete_product_body(id).products : d._id = id
          /\ resp.op \in {"get_product", "get_all_products"}
                => \A d \in resp.body : d \in products /\ d.is_active
          /\ resp.op = "get_categories"
                => resp.body \subseteq {d.category : d \in {x \in products : x.is_active}})
    /\ [][/\ {d._id : d \in products} \subseteq {d._id : d \in products'}
          /\ (resp'.op = "delete_product" /\ resp'.status_code = HTTP_200)
                => /\ \E d \in products' : ~d.is_active
                   /\ \A d \in products' : d \notin products => ~d.is_active
          /\ \A d \in products, d2 \in products' :
                (d._id = d2._id /\ ~d.is_active /\ d2.is_active)
                   => resp'.op = "update_product"]_vars

\* a product that was deleted after its creation is still stored, and
\* get_product does not find it
C27_Witness ==
    /\ resp.op = "get_product"
    /\ resp.status_code = HTTP_404
    /\ \E d \in products : ~d.is_active /\ d.updated_at > d.created_at

\* the document d after an update request: the provided fields take the
\* request's values, updated_at is refreshed where stamped, the rest is kept
OnlyProvidedChanged(d, new, update, stamped) ==
    /\ DOMAIN new = DOMAIN d
    /\ \A k \in DOMAIN d :
          new[k] = IF k \in provided(update) THEN update[k][1]
                   ELSE IF stamped /\ k = "updated_at" THEN now
                   ELSE d[k]

\* C28: update_product, update_order and update_contact_message change only
\* the fields the request provides (non-null) and keep every other field and
\* every other document, except that update_product and update_order always
\* set updated_at, also for an empty request, while update_contact_message
\* with no provided field makes no write at all.
C28_UpdateFrame ==
    /\ [](/\ \A d \in products, u \in ProductUpdates :
                LET out == update_product_body(d._id, u)
                IN  /\ out.exc = NoException
                    /\ "products.update_one" \in out.dbops
                    /\ \E new \in out.products :
                          /\ OnlyProvidedChanged(d, new, u, TRUE)
                          /\ out.products = (products \ {d}) \cup {new}
                          /\ out.body = {new}
                    /\ out.orders = orders /\ out.contact_messages = contact_messages
          /\ \A d \in orders, u \in OrderUpdates :
                LET out == update_order_body(d._id, u)
                IN  /\ out.exc = NoException
                    /\ "orders.update_one" \in out.dbops
                    /\ \E new \in out.orders :
                          /\ OnlyProvidedChanged(d, new, u, TRUE)
                          /\ out.orders = (orders \ {d}) \cup {new}
                          /\ out.body = {new}
                    /\ out.products = products /\ out.contact_messages = contact_messages
          /\ \A d \in contact_messages, u \in ContactMessageUpdates :
                LET out == update_contact_message_body(d._id, u)
                IN  /\ out.exc = NoException
                    /\ "contact_messages.update_one" \in out.dbops <=> provided(u) # {}
                    /\ provided(u) = {} => out.contact_messages = contact_messages
                    /\ \E new \in out.contact_messages :
                          /\ OnlyProvidedChanged(d, new, u, FALSE)
                          /\ out.contact_messages = (contact_messages \ {d}) \cup {new}
                          /\ out.body = {new}
                    /\ out.products = products /\ out.orders = orders)
    /\ [][/\ (resp'.op = "update_contact_message"
                /\ "contact_messages.update_one" \notin resp'.dbops)
                => UNCHANGED store
          /\ (resp'.op \in {"update_product", "update_order"}
                /\ resp'.status_code = HTTP_200)
                => \A d \in resp'.body : d.updated_at = now]_vars

\* an update_order request that provided no field was served on a later day:
\* only updated_at moved
C28_Witness ==
    /\ resp.op = "update_order"
    /\ resp.status_code = HTTP_200
    /\ \E d \in resp.body :
          /\ d \in orders
          /\ d.status = "pending"
          /\ d.admin_notes = NoneVal
          /\ d.updated_at > d.created_at

====
